---- MODULE Spec2Model ----
(***************************************************************************)
(* Model of the calendar tool of the desk assistant                        *)
(* (server/generate_calendar.py): CalendarEngine.resolve_relative_dates,   *)
(* CalendarEngine.parse_input, CalendarEngine.get_grid and the tool        *)
(* generate_calendar; of the command dispatcher get_tool_and_args of the   *)
(* web front end (mcp-server-demo/app.py); and of the rate lookup          *)
(* get_rates of the currency tool (server/currency.py).                    *)
(*                                                                         *)
(* Text is a sequence of one-character strings, so that the string         *)
(* rewrites, the decimal formatting of years and the int() parsing of      *)
(* words are computed as the code computes them.                           *)
(***************************************************************************)
EXTENDS Integers, Sequences, FiniteSets, TLC

(***************************************************************************)
(* Bounds of the model                                                     *)
(***************************************************************************)
\* longest word sequence of the general input family
MaxWords == 4
\* longest word sequence of the dispatcher queries
MaxQueryWords == 3
\* how many times get_rates is called
MaxLookups == 2
\* how many half lifetimes of a cache entry the time advances
MaxTimeSteps == 3
\* how many days the wall clock may advance while one call is in progress
MaxTicks == 1
\* half-width of the year windows used around each interesting year
YearSpan == 1

(***************************************************************************)
(* Characters                                                              *)
(***************************************************************************)
LowerAlpha ==
  <<"a","b","c","d","e","f","g","h","i","j","k","l","m",
    "n","o","p","q","r","s","t","u","v","w","x","y","z">>

UpperAlpha ==
  <<"A","B","C","D","E","F","G","H","I","J","K","L","M",
    "N","O","P","Q","R","S","T","U","V","W","X","Y","Z">>

DecDigits == <<"0","1","2","3","4","5","6","7","8","9">>

Range(s) == {s[k] : k \in 1..Len(s)}

AsciiAlphaSet == Range(LowerAlpha) \cup Range(UpperAlpha)

DecDigitSet == Range(DecDigits)

\* [a-zA-Z] of the regular expressions
IsAsciiAlpha(c) == c \in AsciiAlphaSet

\* \d of the regular expressions, and the characters int() accepts
IsDecDigit(c) == c \in DecDigitSet

\* characters for which str.isdigit() is true but which are no decimal
\* digits; the character U+00B2 stands for the whole class and is written
\* by its name
OtherDigits == {"SUPERSCRIPT TWO"}

\* str.isdigit() on one character
IsDigitChar(c) == IsDecDigit(c) \/ c \in OtherDigits

\* \s of the regular expressions and the separators of str.split()
IsSpace(c) == c = " "

WordCharSet == AsciiAlphaSet \cup DecDigitSet \cup OtherDigits \cup {"_"}

\* \w of the regular expressions
IsWordChar(c) == c \in WordCharSet

DigitValOf == [c \in DecDigitSet |-> (CHOOSE k \in 1..10 : DecDigits[k] = c) - 1]

DigitVal(c) == DigitValOf[c]

LowerOf ==
  [c \in Range(UpperAlpha) |->
     LowerAlpha[CHOOSE k \in 1..26 : UpperAlpha[k] = c]]

LowerChar(c) == IF c \in DOMAIN LowerOf THEN LowerOf[c] ELSE c

(***************************************************************************)
(* Python string primitives                                                *)
(***************************************************************************)
\* str.lower()
Lower(s) == [k \in 1..Len(s) |-> LowerChar(s[k])]

\* s.startswith(sub, p - 1)
StartsAt(s, p, sub) ==
  /\ p + Len(sub) - 1 <= Len(s)
  /\ \A k \in 1..Len(sub) : s[p + k - 1] = sub[k]

\* sub in s
Contains(s, sub) == \E p \in 1..(Len(s) + 1) : StartsAt(s, p, sub)

RECURSIVE ReplaceFrom(_, _, _, _)
ReplaceFrom(s, p, old, new) ==
  IF p > Len(s) THEN <<>>
  ELSE IF StartsAt(s, p, old)
    THEN new \o ReplaceFrom(s, p + Len(old), old, new)
    ELSE <<s[p]>> \o ReplaceFrom(s, p + 1, old, new)

\* s.replace(old, new) for a non-empty old: leftmost non-overlapping matches
Replace(s, old, new) ==
  IF Contains(s, old) THEN ReplaceFrom(s, 1, old, new) ELSE s

RECURSIVE SplitFrom(_, _, _)
SplitFrom(s, p, word) ==
  IF p > Len(s) THEN (IF word = <<>> THEN <<>> ELSE <<word>>)
  ELSE IF IsSpace(s[p])
    THEN (IF word = <<>> THEN <<>> ELSE <<word>>) \o SplitFrom(s, p + 1, <<>>)
    ELSE SplitFrom(s, p + 1, Append(word, s[p]))

\* s.split(): the maximal runs of non-whitespace characters
Split(s) == SplitFrom(s, 1, <<>>)

\* word.isdigit()
IsDigit(word) == Len(word) > 0 /\ \A k \in 1..Len(word) : IsDigitChar(word[k])

\* int(word) raises ValueError unless every character is a decimal digit
IntRaises(word) == \E k \in 1..Len(word) : ~IsDecDigit(word[k])

RECURSIVE IntOf(_)
\* int(word) for a word of decimal digits
IntOf(word) ==
  IF word = <<>> THEN 0
  ELSE 10 * IntOf(SubSeq(word, 1, Len(word) - 1)) + DigitVal(word[Len(word)])

RECURSIVE Str(_)
\* str(n) for an integer n
Str(n) ==
  IF n < 0 THEN <<"-">> \o Str(0 - n)
  ELSE IF n < 10 THEN <<DecDigits[n + 1]>>
  ELSE Str(n \div 10) \o <<DecDigits[(n % 10) + 1]>>

(***************************************************************************)
(* Python calendar / datetime                                              *)
(***************************************************************************)
month_name ==
  << <<"J","a","n","u","a","r","y">>,
     <<"F","e","b","r","u","a","r","y">>,
     <<"M","a","r","c","h">>,
     <<"A","p","r","i","l">>,
     <<"M","a","y">>,
     <<"J","u","n","e">>,
     <<"J","u","l","y">>,
     <<"A","u","g","u","s","t">>,
     <<"S","e","p","t","e","m","b","e","r">>,
     <<"O","c","t","o","b","e","r">>,
     <<"N","o","v","e","m","b","e","r">>,
     <<"D","e","c","e","m","b","e","r">> >>

month_abbr == [m \in 1..12 |-> SubSeq(month_name[m], 1, 3)]

\* calendar.isleap
isleap(y) == y % 4 = 0 /\ (y % 100 # 0 \/ y % 400 = 0)

\* calendar.monthrange(y, m)[1]
monthrange(y, m) ==
  IF m = 2 THEN (IF isleap(y) THEN 29 ELSE 28)
  ELSE IF m \in {4, 6, 9, 11} THEN 30 ELSE 31

RECURSIVE DaysBeforeMonth(_, _)
DaysBeforeMonth(y, m) ==
  IF m = 1 THEN 0 ELSE DaysBeforeMonth(y, m - 1) + monthrange(y, m - 1)

\* datetime.date(y, m, d).toordinal(), for 1 <= y <= 9999
toordinal(y, m, d) ==
  (y - 1) * 365 + ((y - 1) \div 4) - ((y - 1) \div 100) + ((y - 1) \div 400)
    + DaysBeforeMonth(y, m) + d

\* datetime.date(y, m, d).weekday(): Monday is 0
weekday(y, m, d) == (toordinal(y, m, d) + 6) % 7

\* today + datetime.timedelta(days=1)
NextDay(t) ==
  IF t.day < monthrange(t.year, t.month)
    THEN [year |-> t.year, month |-> t.month, day |-> t.day + 1]
  ELSE IF t.month < 12
    THEN [year |-> t.year, month |-> t.month + 1, day |-> 1]
    ELSE [year |-> t.year + 1, month |-> 1, day |-> 1]

(***************************************************************************)
(* resolve_relative_dates                                                  *)
(***************************************************************************)
Sp == <<" ">>

W_month == <<"m","o","n","t","h">>
W_last_quarter == <<"l","a","s","t"," ","q","u","a","r","t","e","r">>
OrdinalSuffixes == {<<"s","t">>, <<"n","d">>, <<"r","d">>, <<"t","h">>}

\* seasons: the word and its three months (lines 86-90, in this order)
Seasons ==
  << [old |-> <<"s","u","m","m","e","r">>,
      new |-> month_name[6] \o Sp \o month_name[7] \o Sp \o month_name[8]],
     [old |-> <<"w","i","n","t","e","r">>,
      new |-> month_name[12] \o Sp \o month_name[1] \o Sp \o month_name[2]],
     [old |-> <<"s","p","r","i","n","g">>,
      new |-> month_name[3] \o Sp \o month_name[4] \o Sp \o month_name[5]],
     [old |-> <<"a","u","t","u","m","n">>,
      new |-> month_name[9] \o Sp \o month_name[10] \o Sp \o month_name[11]],
     [old |-> <<"f","a","l","l">>,
      new |-> month_name[9] \o Sp \o month_name[10] \o Sp \o month_name[11]] >>

W_month_after_next ==
  <<"m","o","n","t","h"," ","a","f","t","e","r"," ","n","e","x","t">>
W_year_after_next ==
  <<"y","e","a","r"," ","a","f","t","e","r"," ","n","e","x","t">>
W_next_year == <<"n","e","x","t"," ","y","e","a","r">>
W_last_year == <<"l","a","s","t"," ","y","e","a","r">>
W_this_year == <<"t","h","i","s"," ","y","e","a","r">>
W_next_month == <<"n","e","x","t"," ","m","o","n","t","h">>
W_last_month == <<"l","a","s","t"," ","m","o","n","t","h">>
W_previous_month ==
  <<"p","r","e","v","i","o","u","s"," ","m","o","n","t","h">>
W_tomorrow == <<"t","o","m","o","r","r","o","w">>
W_today == <<"t","o","d","a","y">>
W_now == <<"n","o","w">>

\* f"{calendar.month_name[m]} {y}"
MonthYear(m, y) == month_name[m] \o Sp \o Str(y)

\* \b in front of a word character at position p
BoundaryBefore(s, p) == p = 1 \/ ~IsWordChar(s[p - 1])

RECURSIVE SkipSpaces(_, _)
\* the position after the greedy \s* that starts at p
SkipSpaces(s, p) ==
  IF p <= Len(s) /\ IsSpace(s[p]) THEN SkipSpaces(s, p + 1) ELSE p

\* (\d{4}) matches at p
FourDigitsAt(s, p) ==
  /\ p + 3 <= Len(s)
  /\ \A k \in p..(p + 3) : IsDecDigit(s[k])

\* the months of a quarter
QuarterMonths(q) ==
  month_name[3 * q - 2] \o Sp \o month_name[3 * q - 1] \o Sp \o month_name[3 * q]

\* r'\bq([1-4])\s*(\d{4})?' matches at p
QuarterAt(s, p) ==
  /\ p + 1 <= Len(s)
  /\ s[p] = "q"
  /\ BoundaryBefore(s, p)
  /\ s[p + 1] \in {"1", "2", "3", "4"}

\* replace_quarters: the replacement text of the match at p
replace_quarters(s, p, today) ==
  LET e == SkipSpaces(s, p + 2)
      y_str == IF FourDigitsAt(s, e) THEN SubSeq(s, e, e + 3)
               ELSE Str(today.year)
  IN  QuarterMonths(DigitVal(s[p + 1])) \o Sp \o y_str

\* the position after the quarter match at p
QuarterEnd(s, p) ==
  LET e == SkipSpaces(s, p + 2)
  IN  IF FourDigitsAt(s, e) THEN e + 4 ELSE e

RECURSIVE QuarterSub(_, _, _)
\* re.sub(r'\bq([1-4])\s*(\d{4})?', replace_quarters, text), from position p
QuarterSub(s, p, today) ==
  IF p > Len(s) THEN <<>>
  ELSE IF QuarterAt(s, p)
    THEN replace_quarters(s, p, today) \o QuarterSub(s, QuarterEnd(s, p), today)
    ELSE <<s[p]>> \o QuarterSub(s, p + 1, today)

\* r'\blast quarter\s*(\d{4})?' matches at p
LastQuarterAt(s, p) == StartsAt(s, p, W_last_quarter) /\ BoundaryBefore(s, p)

RECURSIVE LastQuarterSub(_, _, _)
\* re.sub(r'\blast quarter\s*(\d{4})?', lambda ..., text), from position p
LastQuarterSub(s, p, today) ==
  IF p > Len(s) THEN <<>>
  ELSE IF LastQuarterAt(s, p)
    THEN LET e == SkipSpaces(s, p + Len(W_last_quarter))
             has == FourDigitsAt(s, e)
         IN  QuarterMonths(4) \o Sp
               \o (IF has THEN SubSeq(s, e, e + 3) ELSE Str(today.year))
               \o LastQuarterSub(s, IF has THEN e + 4 ELSE e, today)
    ELSE <<s[p]>> \o LastQuarterSub(s, p + 1, today)

\* number of digits taken by (\d{1,2}) at p when the suffix follows, else 0
OrdinalDigits(s, p) ==
  IF p > Len(s) \/ ~IsDecDigit(s[p]) \/ ~BoundaryBefore(s, p) THEN 0
  ELSE IF /\ p + 1 <= Len(s) /\ IsDecDigit(s[p + 1])
          /\ \E suf \in OrdinalSuffixes : StartsAt(s, p + 2, suf)
    THEN 2
  ELSE IF \E suf \in OrdinalSuffixes : StartsAt(s, p + 1, suf)
    THEN 1
    ELSE 0

\* the position after the match of
\* r'\b(\d{1,2})(?:st|nd|rd|th)\s+month' at p, or 0 when there is no match
OrdinalEnd(s, p) ==
  LET n == OrdinalDigits(s, p)
      a == p + n + 2
      e == SkipSpaces(s, a)
  IN  IF n > 0 /\ e > a /\ StartsAt(s, e, W_month)
        THEN e + Len(W_month) ELSE 0

\* replace_ordinals: the replacement text of the match at p
replace_ordinals(s, p) ==
  LET num == IntOf(SubSeq(s, p, p + OrdinalDigits(s, p) - 1))
  IN  IF 1 <= num /\ num <= 12 THEN month_name[num] \o Sp
      ELSE SubSeq(s, p, OrdinalEnd(s, p) - 1)

RECURSIVE OrdinalSub(_, _)
\* re.sub(r'\b(\d{1,2})(?:st|nd|rd|th)\s+month', replace_ordinals, text)
OrdinalSub(s, p) ==
  IF p > Len(s) THEN <<>>
  ELSE IF OrdinalEnd(s, p) > 0
    THEN replace_ordinals(s, p) \o OrdinalSub(s, OrdinalEnd(s, p))
    ELSE <<s[p]>> \o OrdinalSub(s, p + 1)

RECURSIVE ReplaceSeasons(_, _)
ReplaceSeasons(s, k) ==
  IF k > Len(Seasons) THEN s
  ELSE ReplaceSeasons(Replace(s, Seasons[k].old, Seasons[k].new), k + 1)

\* "month after next": today.month + 2, reduced by the while loop
MonthAfterNext(today) ==
  IF today.month + 2 > 12
    THEN [m |-> today.month + 2 - 12, y |-> today.year + 1]
    ELSE [m |-> today.month + 2, y |-> today.year]

\* variant: the month wraps to January without the year carry
NextMonth_NoYearCarry(today) ==
  IF today.month + 1 > 12
    THEN [m |-> 1, y |-> today.year]
    ELSE [m |-> today.month + 1, y |-> today.year]

\* "next month"
NextMonth(today) ==
  IF today.month + 1 > 12
    THEN [m |-> 1, y |-> today.year + 1]
    ELSE [m |-> today.month + 1, y |-> today.year]

\* variant: the month wraps to December without the year borrow
LastMonth_NoYearBorrow(today) ==
  IF today.month - 1 < 1
    THEN [m |-> 12, y |-> today.year]
    ELSE [m |-> today.month - 1, y |-> today.year]

\* "last month" / "previous month"
LastMonth(today) ==
  IF today.month - 1 < 1
    THEN [m |-> 12, y |-> today.year - 1]
    ELSE [m |-> today.month - 1, y |-> today.year]

\* resolve_relative_dates(text) when datetime.date.today() returns today
resolve_relative_dates(text, today) ==
  LET t0 == Lower(text)
      t1 == IF \E p \in 1..Len(t0) : QuarterAt(t0, p)
              THEN QuarterSub(t0, 1, today) ELSE t0
      t2 == IF \E p \in 1..Len(t1) : LastQuarterAt(t1, p)
              THEN LastQuarterSub(t1, 1, today) ELSE t1
      t3 == IF \E p \in 1..Len(t2) : OrdinalEnd(t2, p) > 0
              THEN OrdinalSub(t2, 1) ELSE t2
      t4 == ReplaceSeasons(t3, 1)
      man == MonthAfterNext(today)
      t5 == Replace(t4, W_month_after_next, MonthYear(man.m, man.y))
      t6 == Replace(t5, W_year_after_next, Str(today.year + 2))
      t7 == Replace(t6, W_next_year, Str(today.year + 1))
      t8 == Replace(t7, W_last_year, Str(today.year - 1))
      t9 == Replace(t8, W_this_year, Str(today.year))
      nm == NextMonth(today)
      t10 == Replace(t9, W_next_month, MonthYear(nm.m, nm.y))
      lm == LastMonth(today)
      t11 == IF Contains(t10, W_last_month) \/ Contains(t10, W_previous_month)
               THEN Replace(Replace(t10, W_last_month, MonthYear(lm.m, lm.y)),
                            W_previous_month, MonthYear(lm.m, lm.y))
               ELSE t10
      d == NextDay(today)
      t12 == Replace(t11, W_tomorrow, MonthYear(d.month, d.year))
      t13 == IF Contains(t12, W_today) \/ Contains(t12, W_now)
               THEN Replace(Replace(t12, W_today,
                                    MonthYear(today.month, today.year)),
                            W_now, MonthYear(today.month, today.year))
               ELSE t12
  IN  t13

(***************************************************************************)
(* parse_input: pre-cleaning and tokenization                              *)
(***************************************************************************)
CONNECTORS ==
  << <<"o","f">>, <<"i","n">>, <<"a","t">>, <<"o","n">>,
     <<"f","o","r">>, <<"a","n","d">> >>

Separators == {"/", "-", ".", "_"}

\* re.sub(r'[\/\-\._]', ' ', clean_text)
SeparatorSub(s) ==
  [k \in 1..Len(s) |-> IF s[k] \in Separators THEN " " ELSE s[k]]

RECURSIVE StickyAlphaDigit(_, _)
\* re.sub(r'([a-zA-Z])(\d)', r'\1 \2', clean_text), from position p
StickyAlphaDigit(s, p) ==
  IF p > Len(s) THEN <<>>
  ELSE IF p + 1 <= Len(s) /\ IsAsciiAlpha(s[p]) /\ IsDecDigit(s[p + 1])
    THEN <<s[p], " ", s[p + 1]>> \o StickyAlphaDigit(s, p + 2)
    ELSE <<s[p]>> \o StickyAlphaDigit(s, p + 1)

RECURSIVE StickyDigitAlpha(_, _)
\* re.sub(r'(\d)([a-zA-Z])', r'\1 \2', clean_text), from position p
StickyDigitAlpha(s, p) ==
  IF p > Len(s) THEN <<>>
  ELSE IF p + 1 <= Len(s) /\ IsDecDigit(s[p]) /\ IsAsciiAlpha(s[p + 1])
    THEN <<s[p], " ", s[p + 1]>> \o StickyDigitAlpha(s, p + 2)
    ELSE <<s[p]>> \o StickyDigitAlpha(s, p + 1)

\* re.sub(r'[^\w\s]', ' ', clean_text)
PunctuationSub(s) ==
  [k \in 1..Len(s) |->
     IF IsWordChar(s[k]) \/ IsSpace(s[k]) THEN s[k] ELSE " "]

W_twenty_twenty == <<"t","w","e","n","t","y"," ","t","w","e","n","t","y">>
W_twenty_twenty_four ==
  <<"t","w","e","n","t","y"," ","t","w","e","n","t","y"," ","f","o","u","r">>
W_twenty_thirteen ==
  <<"t","w","e","n","t","y"," ","t","h","i","r","t","e","e","n">>

\* the three spelled-out year replacements, in the order of the code
SpelledYears(s) ==
  LET a == Replace(s, W_twenty_twenty, <<"2","0","2","0">>)
      b == Replace(a, W_twenty_twenty_four, <<"2","0","2","4">>)
      c == Replace(b, W_twenty_thirteen, <<"2","0","1","3">>)
  IN  c

\* the pre-cleaning of parse_input, up to words = clean_text.lower().split()
Words(resolved) ==
  Split(Lower(SpelledYears(PunctuationSub(
    StickyDigitAlpha(StickyAlphaDigit(SeparatorSub(resolved), 1), 1)))))

\* variant: the index in the list without the empty entry 0
MonthIndex_OffByOne(names, word) ==
  IF \E m \in 1..12 : Lower(names[m]) = word
    THEN (CHOOSE m \in 1..12 :
            /\ Lower(names[m]) = word
            /\ \A n \in 1..(m - 1) : Lower(names[n]) # word) - 1
    ELSE 0

\* [m.lower() for m in names].index(word), or 0 when the word is no month
MonthIndex(names, word) ==
  IF \E m \in 1..12 : Lower(names[m]) = word
    THEN CHOOSE m \in 1..12 :
           /\ Lower(names[m]) = word
           /\ \A n \in 1..(m - 1) : Lower(names[n]) # word
    ELSE 0

\* m_val of a word that is neither a number nor a connector
NamedMonth(word) ==
  IF MonthIndex(month_name, word) > 0 THEN MonthIndex(month_name, word)
  ELSE MonthIndex(month_abbr, word)

\* the token appended for one word (when int() does not raise)
Token(word) ==
  IF IsDigit(word) /\ Len(word) = 4
    THEN [type |-> "Y", val |-> IntOf(word)]
  ELSE IF IsDigit(word) /\ 1 <= IntOf(word) /\ IntOf(word) <= 12
    THEN [type |-> "M_NUM", val |-> IntOf(word)]
  ELSE IF word \in Range(CONNECTORS)
    THEN [type |-> "C", val |-> word]
  ELSE IF NamedMonth(word) > 0
    THEN [type |-> "M_NAME", val |-> NamedMonth(word)]
    ELSE [type |-> "Noise"]

\* the tokenization loop evaluates int(word) for every word that isdigit()
TokenizeRaises(words) ==
  \E k \in 1..Len(words) : IsDigit(words[k]) /\ IntRaises(words[k])

\* the tokens appended before the word at which int() raises
TokensBeforeRaise(words) ==
  LET bad == CHOOSE k \in 1..Len(words) :
               /\ IsDigit(words[k]) /\ IntRaises(words[k])
               /\ \A j \in 1..(k - 1) :
                    ~(IsDigit(words[j]) /\ IntRaises(words[j]))
  IN  [k \in 1..(bad - 1) |-> Token(words[k])]

Tokenize(words) == [k \in 1..Len(words) |-> Token(words[k])]

IsMonth(tok) == tok.type \in {"M_NAME", "M_NUM"}

(***************************************************************************)
(* parse_input: magnet phase and bucket phase                              *)
(* Indices are those of the code (0-based); Tok(toks, k) is tokens[k].     *)
(***************************************************************************)
Tok(toks, k) == toks[k + 1]

\* variant: only a further Year blocks
is_blocking_YearRun(toks, idx) ==
  IF idx + 2 >= Len(toks) THEN FALSE
  ELSE /\ Tok(toks, idx + 1).type = "Y"
       /\ Tok(toks, idx + 2).type = "Y"

\* is_blocking(idx)
is_blocking(toks, idx) ==
  IF idx + 2 >= Len(toks) THEN FALSE
  ELSE /\ Tok(toks, idx + 1).type = "Y"
       /\ ~IsMonth(Tok(toks, idx + 2))

\* prev_is_month of Pattern A
prev_is_month(toks, k) == k > 0 /\ IsMonth(Tok(toks, k - 1))

\* prev_is_year of Pattern B
prev_is_year(toks, k) == k > 0 /\ Tok(toks, k - 1).type = "Y"

\* the branch taken for Pattern A: [Month] [Year]
PatternA(toks, k) == IsMonth(Tok(toks, k)) /\ Tok(toks, k + 1).type = "Y"

\* variant: no Month after a Month is bound, named or numeric
BindA_AnyMonth(toks, k) ==
  /\ ~is_blocking(toks, k)
  /\ ~prev_is_month(toks, k)

\* Pattern A binds
BindA(toks, k) ==
  /\ ~is_blocking(toks, k)
  /\ ~(prev_is_month(toks, k) /\ Tok(toks, k).type = "M_NUM")

\* the branch taken for Pattern B: [Year] [Month]
PatternB(toks, k) == Tok(toks, k).type = "Y" /\ IsMonth(Tok(toks, k + 1))

\* variant: Pattern B never binds
BindB_Never(toks, k) == FALSE

\* variant: Pattern B binds whatever precedes the Year
BindB_Always(toks, k) == TRUE

\* Pattern B binds
BindB(toks, k) == ~prev_is_year(toks, k)

\* variant: Pattern C without the blocking check
BindC_Unblocked(toks, k) ==
  /\ k + 2 < Len(toks)
  /\ IsMonth(Tok(toks, k))
  /\ Tok(toks, k + 1).type = "C"
  /\ Tok(toks, k + 2).type = "Y"

\* Pattern C binds: [Month] [Connector] [Year]
BindC(toks, k) ==
  /\ k + 2 < Len(toks)
  /\ IsMonth(Tok(toks, k))
  /\ Tok(toks, k + 1).type = "C"
  /\ Tok(toks, k + 2).type = "Y"
  /\ ~is_blocking(toks, k + 1)

NoBind == [pairs |-> {}, used |-> {}]

\* the pair added and the indices marked used by the loop body at index k
MagnetBody(toks, k) ==
  IF k + 1 < Len(toks)
    THEN IF PatternA(toks, k)
           THEN IF BindA(toks, k)
                  THEN [pairs |-> {<<Tok(toks, k).val, Tok(toks, k + 1).val>>},
                        used |-> {k, k + 1}]
                  ELSE NoBind
         ELSE IF PatternB(toks, k)
           THEN IF BindB(toks, k)
                  THEN [pairs |-> {<<Tok(toks, k + 1).val, Tok(toks, k).val>>},
                        used |-> {k, k + 1}]
                  ELSE NoBind
         ELSE IF BindC(toks, k)
           THEN [pairs |-> {<<Tok(toks, k).val, Tok(toks, k + 2).val>>},
                 used |-> {k, k + 1, k + 2}]
           ELSE NoBind
    ELSE NoBind

RECURSIVE Remaining(_, _, _, _)
\* [t['val'] for idx, t in enumerate(tokens) if t['type'] in types
\*                                            and idx not in used_indices]
Remaining(toks, used, types, k) ==
  IF k >= Len(toks) THEN <<>>
  ELSE (IF Tok(toks, k).type \in types /\ k \notin used
          THEN <<Tok(toks, k).val>> ELSE <<>>)
       \o Remaining(toks, used, types, k + 1)

\* variant: the months of all tokens, used or not
remaining_months_All(toks, used) == Remaining(toks, {}, {"M_NAME", "M_NUM"}, 0)

\* line 241
remaining_months(toks, used) == Remaining(toks, used, {"M_NAME", "M_NUM"}, 0)

\* variant: the years of all tokens, used or not
remaining_years_All(toks, used) == Remaining(toks, {}, {"Y"}, 0)

\* line 242
remaining_years(toks, used) == Remaining(toks, used, {"Y"}, 0)

\* variant: leftover years without a month are paired with January
BucketPairs_YearsAlone(toks, used, curr_year) ==
  LET ms == remaining_months(toks, used)
      ys == remaining_years(toks, used)
  IN  IF ys # <<>>
        THEN (IF ms # <<>> THEN Range(ms) ELSE {1}) \X Range(ys)
        ELSE {<<m, curr_year>> : m \in Range(ms)}

\* variant: only the first leftover month is paired
BucketPairs_FirstMonth(toks, used, curr_year) ==
  LET ms == remaining_months(toks, used)
      ys == remaining_years(toks, used)
  IN  IF ms # <<>>
        THEN IF ys # <<>> THEN {ms[1]} \X Range(ys)
             ELSE {<<ms[1], curr_year>>}
        ELSE {}

\* the pairs the bucket phase adds when the current year is curr_year
BucketPairs(toks, used, curr_year) ==
  LET ms == remaining_months(toks, used)
      ys == remaining_years(toks, used)
  IN  IF ms # <<>>
        THEN IF ys # <<>> THEN Range(ms) \X Range(ys)
             ELSE {<<m, curr_year>> : m \in Range(ms)}
        ELSE {}

\* variant: the pairs compared as (year, month)
PairLess_YearFirst(a, b) == a[2] < b[2] \/ (a[2] = b[2] /\ a[1] < b[1])

\* the order of Python tuples (month, year)
PairLess(a, b) == a[1] < b[1] \/ (a[1] = b[1] /\ a[2] < b[2])

RECURSIVE Sorted(_)
\* sorted(list(final_pairs))
Sorted(S) ==
  IF S = {} THEN <<>>
  ELSE LET lo == CHOOSE a \in S : \A b \in S \ {a} : PairLess(a, b)
       IN  <<lo>> \o Sorted(S \ {lo})

(***************************************************************************)
(* get_grid                                                                *)
(***************************************************************************)
\* f"({d})": a day of an adjacent month
AdjacentCell(d) == <<"(">> \o Str(d) \o <<")">>

\* f" {d:<2}": a day of the month, left-justified in two columns
MonthCell(d) == Sp \o Str(d) \o (IF d < 10 THEN Sp ELSE <<>>)

\* variant: only the upper limit is enforced
ClampYear_UpperOnly(year) == IF year > 9999 THEN 9999 ELSE year

\* lines 27-28: the year get_grid works with
ClampYear(year) == IF year < 1 THEN 1 ELSE IF year > 9999 THEN 9999 ELSE year

\* variant: the weekday of the 1st as datetime counts it, Monday is 0
wday_index_MondayFirst(year, month) == weekday(year, month, 1)

\* lines 30-32: the column of the 1st of the month, Sunday is column 0
wday_index(year, month) == (weekday(year, month, 1) + 1) % 7

\* lines 35-41: the tail of the previous month
PrevTail(year, month) ==
  LET w == wday_index(year, month)
      p_m == IF month = 1 THEN 12 ELSE month - 1
      p_y == IF month = 1 THEN year - 1 ELSE year
      days_prev == monthrange(p_y, p_m)
      start_d == days_prev - w + 1
  IN  IF w > 0 THEN [k \in 1..w |-> AdjacentCell(start_d + k - 1)] ELSE <<>>

\* lines 44-46: the days of the month
CurrMonth(year, month) ==
  [d \in 1..monthrange(year, month) |-> MonthCell(d)]

\* variant: the grid is filled up to five weeks only
NextHead_FiveWeeks(len) == [d \in 1..(35 - len) |-> AdjacentCell(d)]

\* lines 49-51: the head of the next month, filling up to 42 cells
NextHead(len) == [d \in 1..(42 - len) |-> AdjacentCell(d)]

\* grid_flat at line 52
grid_flat(year, month) ==
  LET y == ClampYear(year)
      head == PrevTail(y, month) \o CurrMonth(y, month)
  IN  head \o NextHead(Len(head))

\* line 53: [grid_flat[i:i + 7] for i in range(0, len(grid_flat), 7)]
Rows(flat) ==
  [r \in 1..((Len(flat) + 6) \div 7) |->
     SubSeq(flat, 7 * (r - 1) + 1,
            IF 7 * r <= Len(flat) THEN 7 * r ELSE Len(flat))]

\* get_grid(year, month)
get_grid(year, month) == Rows(grid_flat(year, month))

\* datetime.date(y, m, d) raises ValueError outside MINYEAR..MAXYEAR, outside
\* the months 1..12 and outside the days of the month
DateRaises(y, m, d) ==
  \/ y < 1 \/ y > 9999
  \/ m < 1 \/ m > 12
  \/ d < 1 \/ d > monthrange(y, m)

\* line 30 is the only statement of get_grid that can raise:
\* calendar.monthrange accepts the year 0 of line 37 (Python 3.8 and later,
\* and the union types of app.py need 3.10) and every month it is given
\* after line 30 is in 1..12
GridRaises(year, month) == DateRaises(ClampYear(year), month, 1)

(***************************************************************************)
(* Inputs                                                                  *)
(***************************************************************************)
RECURSIVE JoinWords(_)
\* the words separated by single spaces
JoinWords(ws) ==
  IF ws = <<>> THEN <<>>
  ELSE IF Len(ws) = 1 THEN ws[1]
  ELSE ws[1] \o Sp \o JoinWords(Tail(ws))

Date(y, m, d) == [year |-> y, month |-> m, day |-> d]

(***************************************************************************)
(* app.py: get_tool_and_args                                               *)
(***************************************************************************)
\* Python's None and a value that is not None
None == <<>>
Some(x) == <<x>>

RECURSIVE LStrip(_)
LStrip(s) == IF s # <<>> /\ IsSpace(s[1]) THEN LStrip(Tail(s)) ELSE s

RECURSIVE RStrip(_)
RStrip(s) ==
  IF s # <<>> /\ IsSpace(s[Len(s)])
    THEN RStrip(SubSeq(s, 1, Len(s) - 1)) ELSE s

\* str.strip()
Strip(s) == RStrip(LStrip(s))

\* the keys of TOOL_MAPPING with their tool names
TOOL_MAPPING ==
  << <<<<"w","e","a","t","h","e","r">>,
       "check_rain_status">>,
     <<<<"c","u","r","r","e","n","c","y">>,
       "convert_currency">>,
     <<<<"c","a","l","c","u","l","a","t","e">>,
       "calculate_math">>,
     <<<<"t","r","a","n","s","l","a","t","e">>,
       "translate_text">>,
     <<<<"q","r","g","e","n","e","r","a","t","o","r">>,
       "generate_qr_code">>,
     <<<<"c","a","l","e","n","d","a","r">>,
       "generate_calendar">>,
     <<<<"r","e","v","i","e","w","s">>,
       "fetch_reviews">>,
     <<<<"s","e","a","r","c","h">>,
       "fetch_web_links">>,
     <<<<"n","e","w","s">>,
       "fetch_news">>,
     <<<<"d","i","c","t","i","o","n","a","r","y">>,
       "eng_dictionary">>,
     <<<<"i","m","a","g","e","c","o","n","v","e","r","t">>,
       "convert_image_web">>,
     <<<<"g","e","o","c","o","d","e">>,
       "mcp_geocode">>,
     <<<<"r","o","u","t","e","&","d","i","s","t","a","n","c","e">>,
       "mcp_distance_and_route">>,
     <<<<"t","i","m","e","z","o","n","e">>,
       "timezone_convert">> >>

InToolMapping(phrase) ==
  \E e \in 1..Len(TOOL_MAPPING) : TOOL_MAPPING[e][1] = phrase

\* TOOL_MAPPING[phrase]
ToolOf(phrase) ==
  TOOL_MAPPING[CHOOSE e \in 1..Len(TOOL_MAPPING) :
                 TOOL_MAPPING[e][1] = phrase][2]

RECURSIVE Concat(_)
\* "".join(ws)
Concat(ws) == IF ws = <<>> THEN <<>> ELSE ws[1] \o Concat(Tail(ws))

\* lwords = [w.lower() for w in words]
LowerWords(ws) == [k \in 1..Len(ws) |-> Lower(ws[k])]

\* max_cmd_words = min(3, len(lwords))
max_cmd_words(lwords) == IF 3 < Len(lwords) THEN 3 ELSE Len(lwords)

RECURSIVE TryPhrases(_, _, _)
\* the loop "for n in range(max_cmd_words, 0, -1)" from n downwards
TryPhrases(words, lwords, n) ==
  IF n < 1 THEN [tool_name |-> None, args |-> None]
  ELSE IF InToolMapping(Concat(SubSeq(lwords, 1, n)))
    THEN [tool_name |-> Some(ToolOf(Concat(SubSeq(lwords, 1, n)))),
          args |-> Some(Strip(JoinWords(SubSeq(words, n + 1, Len(words)))))]
    ELSE TryPhrases(words, lwords, n - 1)

\* get_tool_and_args(q)
get_tool_and_args(q) ==
  LET stripped == Strip(q)
      words == Split(stripped)
  IN  IF stripped = <<>> \/ words = <<>>
        THEN [tool_name |-> None, args |-> None]
        ELSE TryPhrases(words, LowerWords(words),
                        max_cmd_words(LowerWords(words)))

(***************************************************************************)
(* app.py: index                                                           *)
(***************************************************************************)
\* the tools the modules of server/ register, with the number of parameters
\* of their functions
ToolParams ==
  "mcp_geocode" :> 1 @@ "mcp_reverse_geocode" :> 2 @@
  "mcp_landmark_nearby" :> 3 @@ "mcp_distance_and_route" :> 1 @@
  "convert_image_web" :> 2 @@ "fetch_reviews" :> 1 @@
  "timezone_convert" :> 1 @@ "check_rain_status" :> 1

\* variant: a tool name alone is enough
Dispatches_NameOnly(name, args) == name # None

\* line 150: "if tool_name and tool_args"; None and "" are false
Dispatches(name, args) == name # None /\ args # None /\ args[1] # <<>>

\* line 152: get_tool(tool_name).fn fails for a name that is not registered
LookupFails(name) == name \notin DOMAIN ToolParams

\* lines 156-159: only a function of one parameter is called
OneParameter(name) == ToolParams[name] = 1

\* line 172: the "Unknown command" message, by content
UnknownCommand(q) == [kind |-> "unknown", about |-> q]

\* line 169: the "Error executing tool" message, by content
ErrorText(name) == [kind |-> "error", about |-> name]

\* line 159: the "Need LLM to parse arguments" message, by content
NeedLLM(name) == [kind |-> "need_llm", about |-> name]

\* what a tool function can do: return a text, a dict, an image dict, or
\* raise an exception
ToolOutcomes == {"text", "dict", "image", "raise"}

\* lines 157, 168-169, 176-186: the result of the page after a tool call;
\* a dict that is not an image is formatted as text
AfterTool(name, outcome) ==
  IF outcome = "raise" THEN ErrorText(name)
  ELSE IF outcome = "image" THEN [kind |-> "image", about |-> name]
  ELSE [kind |-> "text", about |-> name]

(***************************************************************************)
(* currency.py: DataEngine and get_rates                                   *)
(* A dict is a function from its keys; {} is the function with no key.     *)
(***************************************************************************)
CACHE_TTL_SECONDS == 3600

EmptyDict == <<>>

\* dct[k] = v
DictSet(dct, k, v) ==
  [x \in DOMAIN dct \cup {k} |-> IF x = k THEN v ELSE dct[x]]

\* DataEngine.get(key) at time t
DataEngine_get(cch, exp, t, k) ==
  IF k \in DOMAIN cch /\ t < exp[k] THEN Some(cch[k]) ELSE None

\* the truth value of "x := ..." for None or a dict: None and {} are false
Truthy(opt) == opt # None /\ DOMAIN opt[1] # {}

\* f"rates_{base}"
RatesKey(b) == <<"r","a","t","e","s","_">> \o b

K_rates == <<"r","a","t","e","s">>
K_date == <<"d","a","t","e">>
K_amount == <<"a","m","o","u","n","t">>

\* {k.lower(): v for k, v in rates.items()}
LowerKeys(dct) ==
  [k \in {Lower(x) : x \in DOMAIN dct} |->
     dct[CHOOSE x \in DOMAIN dct : Lower(x) = k]]

(***************************************************************************)
(* parse_input and generate_calendar as functions of the query and of the  *)
(* dates read from the clock                                               *)
(***************************************************************************)
RECURSIVE MagnetScan(_, _, _, _)
\* lines 188-237: the while loop from index k on
MagnetScan(toks, k, used, pairs) ==
  IF k >= Len(toks) THEN [pairs |-> pairs, used |-> used]
  ELSE IF k \in used THEN MagnetScan(toks, k + 1, used, pairs)
  ELSE MagnetScan(toks, k + 1, used \cup MagnetBody(toks, k).used,
                  pairs \cup MagnetBody(toks, k).pairs)

\* parse_input(t) when line 59 reads the date today_read and line 252 the
\* year curr_year
parse_input(t, today_read, curr_year) ==
  LET words == Words(resolve_relative_dates(t, today_read))
  IN  IF TokenizeRaises(words)
        THEN [raised |-> TRUE, pairs |-> <<>>]
        ELSE LET toks == Tokenize(words)
                 m == MagnetScan(toks, 0, {}, {})
             IN  [raised |-> FALSE,
                  pairs |-> Sorted(m.pairs
                                     \cup BucketPairs(toks, m.used, curr_year))]

\* lines 275-282: the header and the six week rows of one pair
Block(pair) ==
  [title |-> MonthYear(pair[1], pair[2]), weeks |-> get_grid(pair[2], pair[1])]

\* what generate_calendar returns, by content: the kind of message, the
\* query it quotes, the announced number of calendars and the blocks
Output(kind, q, blocks) ==
  [kind |-> kind, query |-> q, count |-> Len(blocks), blocks |-> blocks]

\* line 265: the empty-input message
EmptyInput == Output("empty", <<>>, <<>>)

\* a ValueError leaves generate_calendar
Raised == Output("raised", <<>>, <<>>)

\* generate_calendar(q)
generate_calendar(q, today_read, curr_year) ==
  IF Strip(q) = <<>> THEN EmptyInput
  ELSE LET r == parse_input(q, today_read, curr_year)
       IN  IF r.raised THEN Raised
           ELSE IF r.pairs = <<>> THEN Output("none", q, <<>>)
           ELSE Output("cals", q, [k \in 1..Len(r.pairs) |-> Block(r.pairs[k])])

\* variant: the locals of every call are kept in one place
Frame_Shared(p) == 1

\* the locals of a call are those of its own activation
Frame(p) == p

(***************************************************************************)
(* Inputs of the calendar specifications                                   *)
(***************************************************************************)

\* words of the general input family: named months, a numeric month, years,
\* a connector and a noise word
GeneralWords ==
  { <<"j","a","n">>, <<"m","a","r","c","h">>, <<"3">>,
    <<"2","0","2","4">>, <<"2","0","2","5">>,
    <<"a","n","d">>, <<"a","g","a","i","n">> }

GeneralTexts ==
  {JoinWords(ws) : ws \in UNION {[1..n -> GeneralWords] : n \in 0..MaxWords}}

GeneralClock == {Date(2025, 12, 31)}

\* the examples of the specification and of the authors' test list that the
\* general family does not contain
ExampleTexts ==
  { <<" "," "," ">>,
    JoinWords(<< <<"j","a","n">>, <<"f","e","b">>, <<"m","a","r">>,
                 <<"2","0","2","4">> >>),
    JoinWords(<< <<"2","0","2","4">>, <<"m","a","r","c","h">>,
                 <<"2","0","2","5">>, <<"j","u","n","e">> >>),
    JoinWords(<< <<"m","a","r","c","h">>, <<"2","0","2","4">>, <<"a","n","d">>,
                 <<"m","a","r","c","h">>, <<"2","0","2","4">>,
                 <<"a","g","a","i","n">> >>),
    JoinWords(<< <<"F","e","b">>, <<"2","0","2","4">>, <<"a","n","d">>,
                 <<"F","e","b">>, <<"2","0","2","4">>,
                 <<"a","g","a","i","n">> >>),
    JoinWords(<< <<"m","a","r","c","h">>, <<"0","0","0","0">> >>),
    JoinWords(<< <<"F","e","b","r","u","a","r","y">>, <<"o","f">>,
                 <<"0","0","0","5">> >>),
    JoinWords(<< <<"d","e","c","e","m","b","e","r">>,
                 <<"1","0","0","0","0">> >>),
    <<"SUPERSCRIPT TWO">>,
    JoinWords(<< <<"m","a","r","c","h">>, <<"SUPERSCRIPT TWO">>, <<"2","0","2","4">> >>),
    <<"2","0","2","4","m","a","r","c","h","?","?","2","0","2","5","j","u","n","e">>,
    <<"m","a","r","-","a","p","r","-","m","a","y"," ","2","0","2","5">>,
    <<"A","p","r",";","M","a","y",";","J","u","n"," ","2","0","2","6">>,
    <<"1","1","t","h"," ","m","o","n","t","h"," ","2","0","2","4">>,
    <<"s","u","m","m","e","r"," ","2","0","2","4">>,
    <<"l","a","s","t"," ","q","u","a","r","t","e","r"," ","2","0","2","3">>,
    <<"0","3","/","2","0","2","4">>,
    <<"0","0","7">>,
    <<"0","0","0","1","2">>,
    <<"1","2"," ","2","0","2","4">>,
    <<"1","3"," ","2","0","2","4">>,
    <<"0"," ","1","2","3"," ","2","0","2","4">>,
    <<"f","e","b","r","u","a","r","y"," ","t","w","e","n","t","y"," ",
      "t","w","e","n","t","y"," ","f","o","u","r">>,
    <<"f","e","b","r","u","a","r","y"," ","t","w","e","n","t","y"," ",
      "t","w","e","n","t","y">>,
    <<"f","e","b","r","u","a","r","y"," ","t","w","e","n","t","y"," ",
      "t","h","i","r","t","e","e","n">> }

\* the 50 cases of the authors' test list (lines 301-352)
TestCases ==
  { <<"n","e","x","t"," ","m","o","n","t","h"," ","a","n","d"," ","j","u","l",
      "y"," ","2","0","4","4"," ","a","n","d"," ","a","p","r"," ","9","9"," ",
      "a","n","d"," ","t","o","m","o","r","r","o","w">>,
    <<"s","h","o","w"," ","c","a","l","e","n","d","a","r"," ","f","o","r"," ",
      "m","a","r","c","h"," ","o","f"," ","n","e","x","t"," ","y","e","a","r",
      " ","a","n","d"," ","n","o","v"," ","o","f"," ","l","a","s","t"," ","y",
      "e","a","r">>,
    <<"a","p","r","i","l","2","0"," "," ","2","4">>,
    <<"2","0","2","4","m","a","r","c","h","?","?","2","0","2","5","j","u","n",
      "e","?","?","a","g","a","i","n","2","0","2","7","a","p","r","i","l">>,
    <<"c","a","l","e","n","d","a","r"," ","f","o","r"," ","2","0","2","5",",",
      " ","2","0","2","6",","," ","2","0","2","7"," ","j","u","n","e"," ","f",
      "e","b"," ","j","a","n">>,
    <<"2","0","2","3"," ","o","f"," ","j","u","n","e"," ","o","f"," ","2","0",
      "2","8"," ","m","a","r","c","h"," ","o","f"," ","2","0","2","9"," ","n",
      "o","v">>,
    <<"t","h","e"," ","m","o","n","t","h"," ","a","f","t","e","r"," ","n","e",
      "x","t"," ","i","n"," ","t","h","e"," ","y","e","a","r"," ","a","f","t",
      "e","r"," ","n","e","x","t">>,
    <<"t","w","o"," ","m","o","n","t","h","s"," ","a","g","o"," ","a","n","d",
      " ","j","u","l","y"," ","a","n","d"," ","d","e","c">>,
    <<"1","9","9","9"," ","j","a","n"," ","f","e","b"," ","m","a","r"," ","a",
      "p","r"," ","2","0","2","0"," ","2","0","2","1"," ","2","0","2","2">>,
    <<"n","o","v","e","m","b","e","r"," ","t","h","i","s"," ","y","e","a","r",
      " ","a","n","d"," ","f","e","b"," ","l","a","s","t"," ","y","e","a","r",
      " ","a","n","d"," ","m","a","r","c","h"," ","n","e","x","t"," ","y","e",
      "a","r">>,
    <<"p","r","i","n","t"," ","m","a","r","c","h"," ","2","0"," ","2","4">>,
    <<"p","r","i","n","t"," ","2","0"," ","2","4"," ","m","a","r","c","h">>,
    <<"l","a","s","t"," ","d","e","c","e","m","b","e","r"," ","a","n","d"," ",
      "n","e","x","t"," ","j","a","n","u","a","r","y">>,
    <<"m","o","n","t","h"," ","o","f"," ","s","e","p"," ","i","n"," ","t","h",
      "e"," ","y","e","a","r"," ","t","w","e","n","t","y"," ","t","w","e","n",
      "t","y">>,
    <<"s","h","o","w"," ","0","3","/","2","0","2","4"," ","a","n","d"," ","1",
      "2","/","1","9","9","8"," ","a","n","d"," ","1","/","3","0","0","0">>,
    <<"j","u","n","e"," ","o","f"," ","'","2","4">>,
    <<"f","e","b","r","u","a","r","y"," ","t","w","e","n","t","y"," ","t","h",
      "i","r","t","e","e","n">>,
    <<"f","e","b"," ","2","9"," ","2","0","2","4">>,
    <<"n","o","w"," ","n","o","w"," ","n","o","w"," ","n","o","w"," ","m","a",
      "r","c","h"," ","2","0","2","4"," ","n","o","w"," ","n","o","w">>,
    <<"2","0","2","4"," ","2","0","2","5"," ","2","0","2","6"," ","a","u","g",
      "u","s","t"," ","a","u","g","u","s","t"," ","a","u","g","u","s","t">>,
    <<"j","u","l","y"," ","2","0","2","4","?"," "," ","2","0","2","4"," ","j",
      "u","l","y","?"," "," ","j","u","l","y","?"," "," ","2","0","2","4",
      "?">>,
    <<"2","0","3","0","n","o","v"," ","2","0","3","0","d","e","c"," ","2","0",
      "3","0","j","a","n"," ","2","0","3","0","f","e","b">>,
    <<"c","a","l","e","n","d","a","r"," ","f","o","r"," ","q","2"," ","2","0",
      "2","4">>,
    <<"1","1","t","h"," ","m","o","n","t","h"," ","2","0","2","4">>,
    <<"6"," ","2","0","2","5">>,
    <<"5"," ","o","f"," ","n","e","x","t"," ","y","e","a","r">>,
    <<"s","h","o","w"," ","a","l","l"," ","c","a","l","e","n","d","a","r","s",
      " ","f","r","o","m"," ","m","a","r","c","h"," ","t","o"," ","j","u","l",
      "y"," ","2","0","2","4">>,
    <<"j","u","n"," ","j","u","l"," ","a","u","g"," ","i","n"," ","2","4">>,
    <<"t","w","o"," ","t","h","o","u","s","a","n","d"," ","t","w","e","n","t",
      "y"," ","f","o","u","r"," ","f","e","b","r","u","a","r","y">>,
    <<"j","u","s","t"," ","g","i","v","e"," ","j","u","l","y">>,
    <<"s","u","m","m","e","r"," ","2","0","2","4">>,
    <<"m","i","d"," ","m","a","r","c","h"," ","2","0","2","4">>,
    <<"l","a","s","t"," ","q","u","a","r","t","e","r"," ","2","0","2","3">>,
    <<"m","a","r","-","a","p","r","-","m","a","y"," ","2","0","2","5">>,
    <<"2","0","2","4"," ","0","3">>,
    <<"2","4","-","0","3">>,
    <<"A","p","r",";","M","a","y",";","J","u","n"," ","2","0","2","6">>,
    <<"j","a","n"," ","f","e","b"," ","m","a","r"," ","a","p","r"," ","m","a",
      "y"," ","j","u","n","e"," ","2","0","4","9">>,
    <<"n","e","x","t"," ","n","e","x","t"," ","m","o","n","t","h">>,
    <<"3","r","d"," ","m","o","n","t","h"," ","o","f"," ","2","0","2","5">>,
    <<"y","e","a","r"," ","2","0","2","5"," ","i","n"," ","t","h","e"," ","m",
      "o","n","t","h"," ","6">>,
    <<"2","0","2","5",".","(","0","5",")">>,
    <<"2","0","2","6","_","0","4","_","h","e","l","l","o","_","w","o","r","l",
      "d","_","2","0","2","7","_","j","u","n","e">>,
    <<"1","8"," ","j","u","n","e"," ","o","f"," ","2","0","2","4">>,
    <<"2","0","2","4"," ","a","n","d"," ","m","a","r","c","h"," ","a","n","d",
      " ","2","0","2","5"," ","a","n","d"," ","f","e","b","r","u","a","r",
      "y">>,
    <<"2","0","2","4"," ","2","0","2","5"," ","m","a","y"," ","2","0","2","6",
      " ","j","u","n","e"," ","2","0","2","7"," ","j","u","l","y">>,
    <<"m","y"," ","b","i","r","t","h","d","a","y"," ","i","s"," ","i","n"," ",
      "0","3"," ","o","f"," ","2","0","2","7">>,
    <<"F","e","b"," ","2","0","2","4"," ","a","n","d"," ","F","e","b"," ","2",
      "0","2","4"," ","a","g","a","i","n">>,
    <<"F","e","b","r","u","a","r","y"," ","o","f"," ","0","0","0","5">>,
    <<"d","e","c","e","m","b","e","r"," ","1","0","0","0","0">> }

\* "<full month name> <year in decimal>"
MonthYearTexts(years) == {MonthYear(m, y) : m \in 1..12, y \in years}

\* the years of the round-trip family: windows at the digit-count boundaries
\* of 1..9999 and around a present-day year
RoundTripYears ==
  UNION {{y \in (b - YearSpan)..(b + YearSpan) : 1 <= y /\ y <= 9999} :
           b \in {1, 12, 100, 1000, 2024, 9999}}

\* "q<q> <year>" for the four quarters
QuarterText(q, y) == <<"q">> \o Str(q) \o Sp \o Str(y)

QuarterYears ==
  UNION {{y \in (b - YearSpan)..(b + YearSpan) : 1000 <= y /\ y <= 9999} :
           b \in {1000, 2024, 9999}}

QuarterTexts == {QuarterText(q, y) : q \in 1..4, y \in QuarterYears}

\* the relative expressions of resolve_relative_dates
RelativeTexts ==
  { W_next_month, W_last_month, W_previous_month, W_month_after_next,
    W_year_after_next, W_next_year, W_last_year, W_this_year,
    W_tomorrow, W_today, W_now,
    <<"q","3">>, W_last_quarter,
    <<"m","a","r","c","h"," ","o","f"," ">> \o W_next_year,
    <<"t","h","e"," ">> \o W_month_after_next \o <<" ","i","n"," ","t","h","e"," ">>
      \o W_year_after_next }

\* every month of the clock years, on a mid-month day and on the last day
RelativeClock ==
  {Date(y, m, d) : y \in 2024..(2024 + YearSpan), m \in 1..12, d \in {15, 28}}
  \cup {Date(y, m, monthrange(y, m)) : y \in 2024..(2024 + YearSpan), m \in 1..12}

\* the years get_grid is called with: around the clamp limits and the
\* century rules, and a full 28-year cycle of calendars
GridYears ==
  UNION {(b - YearSpan)..(b + YearSpan) : b \in {0, 100, 400, 1900, 9999, 10000}}
  \cup (2000..(2027 + YearSpan))

\* the months get_grid is called with: the months of the year and the two
\* integers next to them
GridMonths == 0..13

\* words of the dispatcher queries: command words in mixed case, an ampersand
\* and argument words
QueryWords ==
  { <<"G","e","o">>, <<"C","o","d","e">>, <<"c","h","e","n","n","a","i">>, <<"Q","R">>,
    <<"G","e","n","e","r","a","t","o","r">>, <<"R","o","u","t","e">>, <<"&">>,
    <<"D","i","s","t","a","n","c","e">>, <<"C","a","l","e","n","d","a","r">>,
    <<"H","e","l","l","o">> }

QueryTexts ==
  {JoinWords(ws) : ws \in UNION {[1..n -> QueryWords] : n \in 0..MaxQueryWords}}

\* the commands of the docstring of get_tool_and_args
Q_Geo_Code_chennai == <<"G","e","o"," ","C","o","d","e"," ","c","h","e","n","n","a","i">>
Q_QR_Code_hello == <<"Q","R"," ","C","o","d","e"," ","h","e","l","l","o">>
Q_RouteANDdistance ==
  <<"R","o","u","t","e","A","N","D","d","i","s","t","a","n","c","e"," ">>
    \o <<"c","h","e","n","n","a","i"," ","t","o"," ","t","r","i","c","h","y">>

DocstringCommands == {Q_Geo_Code_chennai, Q_QR_Code_hello, Q_RouteANDdistance}

\* queries with blanks around and between the words, and a three-word command
\* with arguments
PaddedQueries ==
  { <<" "," "," ">>,
    <<"R","o","u","t","e"," ","&"," ","D","i","s","t","a","n","c","e"," ">>
      \o <<"c","h","e","n","n","a","i"," ","t","o"," ","T","r","i","c","h","y">>,
    <<" "," ">> \o Q_Geo_Code_chennai \o <<" ">>,
    <<"T","i","m","e"," "," ","Z","o","n","e"," ","N","e","w"," ","Y","o","r","k"," ">>,
    <<"c","a","l","e","n","d","a","r">>,
    <<"I","m","a","g","e"," ","C","o","n","v","e","r","t"," ","p","n","g">>,
    <<"W","e","a","t","h","e","r">> }

\* the bases get_rates is called with
RateBases == {<<"U","S","D">>, <<"u","s","d">>, <<"e","u","r">>}

\* a rate table with one entry
OneRate(code, rate) == [x \in {code} |-> rate]

\* what fetch_json can return for the URL of the primary API: None (the
\* request failed), an empty object, the document of the base, a document
\* without the base, and a document whose table for the base is empty
PrimaryData(b) ==
  { None,
    Some(EmptyDict),
    Some(DictSet(OneRate(K_date, 20240101), b, OneRate(<<"i","n","r">>, 2))),
    Some(OneRate(K_date, 20240101)),
    Some(OneRate(b, EmptyDict)) }

\* what fetch_json can return for the URL of the fallback API: None, a
\* document with upper-case currency codes, a document without "rates", and
\* a document with an empty table
FallbackData ==
  { None,
    Some(DictSet(OneRate(K_amount, 1), K_rates, OneRate(<<"I","N","R">>, 3))),
    Some(OneRate(K_amount, 1)),
    Some(OneRate(K_rates, EmptyDict)) }

\* the queries of the concurrent calls
ConcQueries ==
  { <<" "," "," ">>,
    <<"a","g","a","i","n">>,
    <<"j","a","n"," ","2","0","2","4">>,
    <<"2","0","2","4"," ","m","a","r","c","h"," ","2","0","2","5"," ","j","u","n","e">>,
    <<"n","e","x","t"," ","m","o","n","t","h">>,
    <<"j","a","n"," ","f","e","b"," ","m","a","r"," ","2","0","2","4">>,
    <<"SUPERSCRIPT TWO">> }

(***************************************************************************)
(* The state machine of one parse_input call                               *)
(***************************************************************************)
VARIABLES
  clock,         \* the wall-clock date, what datetime.date.today() returns
  ticks,         \* days the clock has advanced since the call started
  text,          \* the argument of parse_input
  pc,            \* position of the call
  today,         \* the local today of resolve_relative_dates
  clean_text,    \* the result of resolve_relative_dates
  tokens,        \* the token list
  i,             \* the scan index of the magnet phase
  used_indices,  \* indices consumed by the magnet phase
  final_pairs,   \* the pair set
  rem_months,    \* remaining_months of the bucket phase
  rem_years,     \* remaining_years of the bucket phase
  result,        \* the returned list
  year,          \* the arguments of a get_grid call
  month,
  grid,          \* the grid get_grid returned
  gpc,           \* position of the get_grid call
  query,         \* the argument of get_tool_and_args
  tpc,           \* position of the get_tool_and_args call
  tool_name,     \* the returned tool name, or None
  tool_args,     \* the returned argument string, or None
  method,        \* request.method of the request index() serves
  index_result,  \* the result index() renders, or None
  invoked,       \* the tool calls made: tool name and argument
  cache,         \* DataEngine._cache
  expiry,        \* DataEngine._expiry
  now,           \* time.time(), in seconds
  lookups,       \* the number of get_rates calls so far
  rpc,           \* position of the get_rates call
  base,          \* the lower-cased base of the call
  requests,      \* the APIs the call has sent a request to
  response,      \* what fetch_json returned last
  rates,         \* what get_rates returned
  cal,           \* CalendarEngine.cal: the first weekday of the Calendar
  calls,         \* per generate_calendar call: position, query, return value
  frames         \* per activation: the locals of the call

parseVars ==
  <<clock, ticks, text, pc, today, clean_text, tokens, i, used_indices,
    final_pairs, rem_months, rem_years, result>>

gridVars == <<year, month, grid, gpc>>

toolVars ==
  <<query, tpc, tool_name, tool_args, method, index_result, invoked>>

ratesVars ==
  <<cache, expiry, now, lookups, rpc, base, requests, response, rates>>

concVars == <<cal, calls, frames>>

\* the variables of the other tools
extVars == <<toolVars, ratesVars, concVars>>

vars ==
  <<clock, ticks, text, pc, today, clean_text, tokens, i, used_indices,
    final_pairs, rem_months, rem_years, result, year, month, grid, gpc,
    extVars>>

\* no get_grid call
GridIdle == year = 1 /\ month = 1 /\ grid = <<>> /\ gpc = "idle"

\* no get_tool_and_args call
ToolIdle ==
  /\ query = <<>>
  /\ tpc = "idle"
  /\ tool_name = None
  /\ tool_args = None
  /\ method = "GET"
  /\ index_result = None
  /\ invoked = <<>>

\* no get_rates call, an empty cache
RatesIdle ==
  /\ cache = EmptyDict
  /\ expiry = EmptyDict
  /\ now = 0
  /\ lookups = 0
  /\ rpc = "idle"
  /\ base = <<>>
  /\ requests = <<>>
  /\ response = None
  /\ rates = None

\* the two generate_calendar calls
Calls == {1, 2}

\* the locals before the call has assigned them
NoLocals ==
  [today |-> Date(2025, 12, 31), curr_year |-> 2025, clean_text |-> <<>>,
   tokens |-> <<>>, i |-> 0, used_indices |-> {}, final_pairs |-> {},
   pairs |-> <<>>, k |-> 0, output_buffer |-> <<>>]

\* lines 18-20: the engine; no generate_calendar call
ConcIdle ==
  /\ cal = 6
  /\ calls = [p \in Calls |-> [pc |-> "idle", query |-> <<>>, out |-> Raised]]
  /\ frames = [f \in Calls |-> NoLocals]

ExtIdle == ToolIdle /\ RatesIdle /\ ConcIdle

\* no parse_input call
ParseIdle ==
  /\ clock = Date(2025, 12, 31)
  /\ ticks = 0
  /\ text = <<>>
  /\ pc = "idle"
  /\ today = clock
  /\ clean_text = <<>>
  /\ tokens = <<>>
  /\ i = 0
  /\ used_indices = {}
  /\ final_pairs = {}
  /\ rem_months = <<>>
  /\ rem_years = <<>>
  /\ result = <<>>

Init ==
  /\ \/ text \in GeneralTexts \cup ExampleTexts \cup TestCases
        /\ clock \in GeneralClock
     \/ text \in MonthYearTexts(RoundTripYears) /\ clock \in GeneralClock
     \/ text \in QuarterTexts /\ clock \in GeneralClock
     \/ text \in RelativeTexts /\ clock \in RelativeClock
  /\ ticks = 0
  /\ pc = "start"
  /\ today = clock
  /\ clean_text = <<>>
  /\ tokens = <<>>
  /\ i = 0
  /\ used_indices = {}
  /\ final_pairs = {}
  /\ rem_months = <<>>
  /\ rem_years = <<>>
  /\ result = <<>>
  /\ GridIdle
  /\ ExtIdle

\* midnight passes while the call is in progress.  The call reads the clock
\* at line 59 and at line 252 only: a change of the date before the first
\* read is a later initial date, and a change between the two reads is
\* observable at the second read only and is taken just before it.
Tick ==
  /\ pc = "magnet"
  /\ i >= Len(tokens)
  /\ ticks < MaxTicks
  /\ clock' = NextDay(clock)
  /\ ticks' = ticks + 1
  /\ UNCHANGED <<text, pc, today, clean_text, tokens, i, used_indices,
                 final_pairs, rem_months, rem_years, result, gridVars, extVars>>

\* line 134: clean_text = self.resolve_relative_dates(text)
Resolve ==
  /\ pc = "start"
  /\ today' = clock
  /\ clean_text' = resolve_relative_dates(text, today')
  /\ pc' = "resolved"
  /\ UNCHANGED <<clock, ticks, text, tokens, i, used_indices,
                 final_pairs, rem_months, rem_years, result, gridVars, extVars>>

\* lines 136-187: pre-cleaning, tokenization, the empty sets and i = 0
TokenizeOk ==
  /\ pc = "resolved"
  /\ LET words == Words(clean_text)
     IN  /\ ~TokenizeRaises(words)
         /\ tokens' = Tokenize(words)
  /\ i' = 0
  /\ used_indices' = {}
  /\ final_pairs' = {}
  /\ pc' = "magnet"
  /\ UNCHANGED <<clock, ticks, text, today, clean_text, rem_months,
                 rem_years, result, gridVars, extVars>>

\* lines 161-165: int(word) raises ValueError, the call ends by the exception
\* with the tokens appended so far
TokenizeRaise ==
  /\ pc = "resolved"
  /\ LET words == Words(clean_text)
     IN  /\ TokenizeRaises(words)
         /\ tokens' = TokensBeforeRaise(words)
  /\ pc' = "raised"
  /\ UNCHANGED <<clock, ticks, text, today, clean_text, i, used_indices,
                 final_pairs, rem_months, rem_years, result, gridVars, extVars>>

\* lines 188-237: one iteration of the while loop
MagnetStep ==
  /\ pc = "magnet"
  /\ i < Len(tokens)
  /\ IF i \in used_indices
       THEN UNCHANGED <<used_indices, final_pairs>>
       ELSE /\ final_pairs' = final_pairs \cup MagnetBody(tokens, i).pairs
            /\ used_indices' = used_indices \cup MagnetBody(tokens, i).used
  /\ i' = i + 1
  /\ UNCHANGED <<clock, ticks, text, pc, today, clean_text, tokens,
                 rem_months, rem_years, result, gridVars, extVars>>

\* lines 239-256: the bucket phase and the return
Bucket ==
  /\ pc = "magnet"
  /\ i >= Len(tokens)
  /\ rem_months' = remaining_months(tokens, used_indices)
  /\ rem_years' = remaining_years(tokens, used_indices)
  /\ final_pairs' =
       final_pairs \cup BucketPairs(tokens, used_indices, clock.year)
  /\ result' = Sorted(final_pairs')
  /\ pc' = "done"
  /\ UNCHANGED <<clock, ticks, text, today, clean_text, tokens, i,
                 used_indices, gridVars, extVars>>

Next ==
  \/ Tick
  \/ Resolve
  \/ TokenizeOk
  \/ TokenizeRaise
  \/ MagnetStep
  \/ Bucket

Spec == Init /\ [][Next]_vars

(***************************************************************************)
(* get_grid called directly with any year and month                        *)
(***************************************************************************)
GridInit ==
  /\ ParseIdle
  /\ ExtIdle
  /\ year \in GridYears
  /\ month \in GridMonths
  /\ grid = <<>>
  /\ gpc = "call"

\* lines 22-53: one call of get_grid that returns
GetGrid ==
  /\ gpc = "call"
  /\ ~GridRaises(year, month)
  /\ grid' = get_grid(year, month)
  /\ gpc' = "returned"
  /\ UNCHANGED <<year, month>>
  /\ UNCHANGED <<parseVars, extVars>>

\* line 30: datetime.date(year, month, 1) raises ValueError, the call ends by
\* the exception
GetGridRaise ==
  /\ gpc = "call"
  /\ GridRaises(year, month)
  /\ gpc' = "raised"
  /\ UNCHANGED <<year, month, grid>>
  /\ UNCHANGED <<parseVars, extVars>>

GridNext ==
  \/ GetGrid
  \/ GetGridRaise

GridSpec == GridInit /\ [][GridNext]_vars

(***************************************************************************)
(* index() serving one request                                             *)
(***************************************************************************)
ToolInit ==
  /\ ParseIdle
  /\ GridIdle
  /\ RatesIdle
  /\ ConcIdle
  /\ query \in QueryTexts \cup DocstringCommands \cup PaddedQueries
  /\ method \in {"GET", "POST"}
  /\ tpc = "call"
  /\ tool_name = None
  /\ tool_args = None
  /\ index_result = None
  /\ invoked = <<>>

\* what the steps of index() leave alone
notTool == <<parseVars, gridVars, ratesVars, concVars>>

\* lines 136-139, 176-188: a GET request renders the page without a result
IndexGet ==
  /\ tpc = "call"
  /\ method = "GET"
  /\ tpc' = "rendered"
  /\ UNCHANGED <<query, tool_name, tool_args, method, index_result, invoked,
                 notTool>>

\* lines 84-119, called at line 148: one call of get_tool_and_args
GetToolAndArgs ==
  /\ tpc = "call"
  /\ method = "POST"
  /\ tool_name' = get_tool_and_args(query).tool_name
  /\ tool_args' = get_tool_and_args(query).args
  /\ tpc' = "returned"
  /\ UNCHANGED <<query, method, index_result, invoked, notTool>>

\* lines 170-172: no tool name or no argument
IndexUnknown ==
  /\ tpc = "returned"
  /\ ~Dispatches(tool_name, tool_args)
  /\ index_result' = Some(UnknownCommand(Strip(query)))
  /\ tpc' = "rendered"
  /\ UNCHANGED <<query, tool_name, tool_args, method, invoked, notTool>>

\* lines 152, 168-169: the tool is not registered, the lookup raises and the
\* handler catches the exception
IndexLookupFails ==
  /\ tpc = "returned"
  /\ Dispatches(tool_name, tool_args)
  /\ LookupFails(tool_name[1])
  /\ index_result' = Some(ErrorText(tool_name[1]))
  /\ tpc' = "rendered"
  /\ UNCHANGED <<query, tool_name, tool_args, method, invoked, notTool>>

\* lines 156, 158-159: the function takes several parameters and is not
\* called
IndexNeedLLM ==
  /\ tpc = "returned"
  /\ Dispatches(tool_name, tool_args)
  /\ ~LookupFails(tool_name[1])
  /\ ~OneParameter(tool_name[1])
  /\ index_result' = Some(NeedLLM(tool_name[1]))
  /\ tpc' = "rendered"
  /\ UNCHANGED <<query, tool_name, tool_args, method, invoked, notTool>>

\* lines 156-157: the tool function is called with the argument string
IndexInvoke ==
  /\ tpc = "returned"
  /\ Dispatches(tool_name, tool_args)
  /\ ~LookupFails(tool_name[1])
  /\ OneParameter(tool_name[1])
  /\ invoked' = Append(invoked, [tool |-> tool_name[1], args |-> tool_args[1]])
  /\ tpc' = "awaiting"
  /\ UNCHANGED <<query, tool_name, tool_args, method, index_result, notTool>>

\* lines 157, 168-169, 176-188: the awaited call returns or raises, the page
\* is rendered
ToolEnds ==
  /\ tpc = "awaiting"
  /\ \E outcome \in ToolOutcomes :
       index_result' = Some(AfterTool(tool_name[1], outcome))
  /\ tpc' = "rendered"
  /\ UNCHANGED <<query, tool_name, tool_args, method, invoked, notTool>>

ToolNext ==
  \/ IndexGet
  \/ GetToolAndArgs
  \/ IndexUnknown
  \/ IndexLookupFails
  \/ IndexNeedLLM
  \/ IndexInvoke
  \/ ToolEnds

ToolSpec == ToolInit /\ [][ToolNext]_vars

(***************************************************************************)
(* get_rates called one call after the other on one DataEngine             *)
(***************************************************************************)
RatesInit ==
  /\ ParseIdle
  /\ GridIdle
  /\ ToolIdle
  /\ RatesIdle
  /\ ConcIdle

notRates == <<parseVars, gridVars, toolVars, concVars>>

\* time passes
AdvanceTime ==
  /\ now < MaxTimeSteps * (CACHE_TTL_SECONDS \div 2)
  /\ now' = now + (CACHE_TTL_SECONDS \div 2)
  /\ UNCHANGED <<cache, expiry, lookups, rpc, base, requests, response, rates,
                 notRates>>

\* lines 93-97: the call starts and the cached table is returned
CacheHit ==
  /\ rpc = "idle"
  /\ lookups < MaxLookups
  /\ \E b \in RateBases :
       /\ base' = Lower(b)
       /\ Truthy(DataEngine_get(cache, expiry, now, RatesKey(base')))
       /\ rates' = DataEngine_get(cache, expiry, now, RatesKey(base'))
  /\ lookups' = lookups + 1
  /\ requests' = <<>>
  /\ response' = None
  /\ rpc' = "returned"
  /\ UNCHANGED <<cache, expiry, now, notRates>>

\* lines 93-101: the call starts, nothing is taken from the cache and the
\* request to the primary API is sent
CacheMiss ==
  /\ rpc = "idle"
  /\ lookups < MaxLookups
  /\ \E b \in RateBases :
       /\ base' = Lower(b)
       /\ ~Truthy(DataEngine_get(cache, expiry, now, RatesKey(base')))
  /\ lookups' = lookups + 1
  /\ requests' = <<"primary">>
  /\ response' = None
  /\ rates' = None
  /\ rpc' = "fetch_primary"
  /\ UNCHANGED <<cache, expiry, now, notRates>>

\* lines 69-77: fetch_json returns for the primary URL
FetchPrimary ==
  /\ rpc = "fetch_primary"
  /\ response' \in PrimaryData(base)
  /\ rpc' = "got_primary"
  /\ UNCHANGED <<cache, expiry, now, lookups, base, requests, rates, notRates>>

\* lines 101-104: the document holds the base, its table is stored and
\* returned
PrimaryOk ==
  /\ rpc = "got_primary"
  /\ Truthy(response)
  /\ base \in DOMAIN response[1]
  /\ cache' = DictSet(cache, RatesKey(base), response[1][base])
  /\ expiry' = DictSet(expiry, RatesKey(base), now + CACHE_TTL_SECONDS)
  /\ rates' = Some(response[1][base])
  /\ rpc' = "returned"
  /\ UNCHANGED <<now, lookups, base, requests, response, notRates>>

\* lines 101-108: no usable document, the request to the fallback API is sent
PrimaryMiss ==
  /\ rpc = "got_primary"
  /\ ~(Truthy(response) /\ base \in DOMAIN response[1])
  /\ requests' = Append(requests, "fallback")
  /\ rpc' = "fetch_fallback"
  /\ UNCHANGED <<cache, expiry, now, lookups, base, response, rates, notRates>>

\* lines 69-77: fetch_json returns for the fallback URL
FetchFallback ==
  /\ rpc = "fetch_fallback"
  /\ response' \in FallbackData
  /\ rpc' = "got_fallback"
  /\ UNCHANGED <<cache, expiry, now, lookups, base, requests, rates, notRates>>

\* lines 108-113: the table of the fallback document is stored with
\* lower-case codes and returned
FallbackOk ==
  /\ rpc = "got_fallback"
  /\ Truthy(response)
  /\ K_rates \in DOMAIN response[1]
  /\ cache' = DictSet(cache, RatesKey(base), LowerKeys(response[1][K_rates]))
  /\ expiry' = DictSet(expiry, RatesKey(base), now + CACHE_TTL_SECONDS)
  /\ rates' = Some(LowerKeys(response[1][K_rates]))
  /\ rpc' = "returned"
  /\ UNCHANGED <<now, lookups, base, requests, response, notRates>>

\* lines 108-114: no usable fallback document, return None
FallbackFail ==
  /\ rpc = "got_fallback"
  /\ ~(Truthy(response) /\ K_rates \in DOMAIN response[1])
  /\ rates' = None
  /\ rpc' = "returned"
  /\ UNCHANGED <<cache, expiry, now, lookups, base, requests, response,
                 notRates>>

\* the caller has the result, the next call can start
RatesReturn ==
  /\ rpc = "returned"
  /\ rpc' = "idle"
  /\ UNCHANGED <<cache, expiry, now, lookups, base, requests, response, rates,
                 notRates>>

RatesNext ==
  \/ AdvanceTime
  \/ CacheHit
  \/ CacheMiss
  \/ FetchPrimary
  \/ PrimaryOk
  \/ PrimaryMiss
  \/ FetchFallback
  \/ FallbackOk
  \/ FallbackFail
  \/ RatesReturn

RatesSpec == RatesInit /\ [][RatesNext]_vars

(***************************************************************************)
(* Two generate_calendar calls on one engine, their steps interleaved      *)
(***************************************************************************)
ConcInit ==
  /\ ParseIdle
  /\ GridIdle
  /\ ToolIdle
  /\ RatesIdle
  /\ cal = 6
  /\ calls \in [Calls -> {[pc |-> "start", query |-> q, out |-> Raised] :
                            q \in ConcQueries}]
  /\ frames = [f \in Calls |-> NoLocals]

\* what the steps of the calls leave alone
notConc ==
  <<text, pc, today, clean_text, tokens, i, used_indices, final_pairs,
    rem_months, rem_years, result, gridVars, toolVars, ratesVars>>

\* call p moves to position to, with the locals of its frame replaced
Step(p, to, locals) ==
  /\ calls' = [calls EXCEPT ![p].pc = to]
  /\ frames' = [frames EXCEPT ![Frame(p)] = locals]
  /\ UNCHANGED <<cal, clock, ticks, notConc>>

\* call p returns out
Return(p, out) ==
  /\ calls' = [calls EXCEPT ![p].pc = "returned", ![p].out = out]
  /\ UNCHANGED <<cal, frames, clock, ticks, notConc>>

\* midnight passes while a call is in progress
ConcTick ==
  /\ \E p \in Calls : calls[p].pc # "returned"
  /\ ticks < MaxTicks
  /\ clock' = NextDay(clock)
  /\ ticks' = ticks + 1
  /\ UNCHANGED <<concVars, notConc>>

\* line 265: the query is blank
ConcEmpty(p) ==
  /\ calls[p].pc = "start"
  /\ Strip(calls[p].query) = <<>>
  /\ Return(p, EmptyInput)

\* lines 267, 134: parse_input starts, resolve_relative_dates reads the clock
ConcResolve(p) ==
  /\ calls[p].pc = "start"
  /\ Strip(calls[p].query) # <<>>
  /\ Step(p, "resolved",
          [frames[Frame(p)] EXCEPT
             !.today = clock,
             !.clean_text = resolve_relative_dates(calls[p].query, clock)])

\* lines 136-187
ConcTokenizeOk(p) ==
  /\ calls[p].pc = "resolved"
  /\ LET words == Words(frames[Frame(p)].clean_text)
     IN  /\ ~TokenizeRaises(words)
         /\ Step(p, "magnet",
                 [frames[Frame(p)] EXCEPT
                    !.tokens = Tokenize(words), !.i = 0,
                    !.used_indices = {}, !.final_pairs = {}])

\* lines 161-165: int(word) raises, nothing catches the exception
ConcTokenizeRaise(p) ==
  /\ calls[p].pc = "resolved"
  /\ TokenizeRaises(Words(frames[Frame(p)].clean_text))
  /\ Return(p, Raised)

\* lines 188-237: one iteration of the while loop
ConcMagnetStep(p) ==
  LET L == frames[Frame(p)]
  IN  /\ calls[p].pc = "magnet"
      /\ L.i < Len(L.tokens)
      /\ Step(p, "magnet",
              IF L.i \in L.used_indices
                THEN [L EXCEPT !.i = L.i + 1]
                ELSE [L EXCEPT
                        !.i = L.i + 1,
                        !.final_pairs = @ \cup MagnetBody(L.tokens, L.i).pairs,
                        !.used_indices = @ \cup MagnetBody(L.tokens, L.i).used])

\* lines 239-256: the bucket phase reads the clock, parse_input returns
ConcBucket(p) ==
  LET L == frames[Frame(p)]
  IN  /\ calls[p].pc = "magnet"
      /\ L.i >= Len(L.tokens)
      /\ Step(p, "parsed",
              [L EXCEPT
                 !.curr_year = clock.year,
                 !.pairs = Sorted(L.final_pairs
                             \cup BucketPairs(L.tokens, L.used_indices,
                                              clock.year)),
                 !.k = 0,
                 !.output_buffer = <<>>])

\* line 268: no pair
ConcNoDates(p) ==
  /\ calls[p].pc = "parsed"
  /\ frames[Frame(p)].pairs = <<>>
  /\ Return(p, Output("none", calls[p].query, <<>>))

\* lines 275-282: the block of the next pair; its month is that of a Month
\* token, in 1..12, so that get_grid returns
ConcRender(p) ==
  LET L == frames[Frame(p)]
  IN  /\ calls[p].pc = "parsed"
      /\ L.k < Len(L.pairs)
      /\ Step(p, "parsed",
              [L EXCEPT
                 !.k = L.k + 1,
                 !.output_buffer = Append(@, Block(L.pairs[L.k + 1]))])

\* variant: the blocks rendered so far are returned before the loop is over
ConcReturn_Early(p) ==
  LET L == frames[Frame(p)]
  IN  /\ calls[p].pc = "parsed"
      /\ L.pairs # <<>>
      /\ Return(p, Output("cals", calls[p].query, L.output_buffer))

\* line 284: all blocks are rendered
ConcReturn(p) ==
  LET L == frames[Frame(p)]
  IN  /\ calls[p].pc = "parsed"
      /\ L.pairs # <<>>
      /\ L.k >= Len(L.pairs)
      /\ Return(p, Output("cals", calls[p].query, L.output_buffer))

ConcNext ==
  \/ ConcTick
  \/ \E p \in Calls :
       \/ ConcEmpty(p)
       \/ ConcResolve(p)
       \/ ConcTokenizeOk(p)
       \/ ConcTokenizeRaise(p)
       \/ ConcMagnetStep(p)
       \/ ConcBucket(p)
       \/ ConcNoDates(p)
       \/ ConcRender(p)
       \/ ConcReturn(p)

ConcSpec == ConcInit /\ [][ConcNext]_vars

(***************************************************************************)
(* Properties                                                              *)
(***************************************************************************)
Returned == pc = "done"

MonthTokens == {k \in 1..Len(tokens) : IsMonth(tokens[k])}

YearTokens == {k \in 1..Len(tokens) : tokens[k].type = "Y"}

T_jan_feb_mar_2024 ==
  <<"j","a","n"," ","f","e","b"," ","m","a","r"," ","2","0","2","4">>

\* C1: a list of named months followed by one trailing year yields one pair
\* per listed month, each with that year, whatever the current year is;
\* "jan feb mar 2024" yields (1,2024), (2,2024), (3,2024).
C1_MonthListTrailingYear ==
  Returned =>
    /\ (text = T_jan_feb_mar_2024
          => result = << <<1, 2024>>, <<2, 2024>>, <<3, 2024>> >>)
    /\ ( ( /\ Len(tokens) >= 2
           /\ \A k \in 1..(Len(tokens) - 1) : tokens[k].type = "M_NAME"
           /\ tokens[Len(tokens)].type = "Y" )
         => Range(result) =
              {<<tokens[k].val, tokens[Len(tokens)].val>> :
                 k \in 1..(Len(tokens) - 1)} )

\* C2: "q<q> <y>" yields exactly the three months of quarter q, each with
\* year y, independent of the current year.
C2_QuarterYear ==
  Returned =>
    \A q \in 1..4, y \in QuarterYears :
      text = QuarterText(q, y)
        => result = << <<3 * q - 2, y>>, <<3 * q - 1, y>> , <<3 * q, y>> >>

\* the token list alternates Year, Month, Year, Month, ...
Alternating ==
  /\ Len(tokens) >= 2
  /\ Len(tokens) % 2 = 0
  /\ \A k \in 1..Len(tokens) :
       IF k % 2 = 1 THEN tokens[k].type = "Y" ELSE IsMonth(tokens[k])

T_2024_march_2025_june ==
  <<"2","0","2","4"," ","m","a","r","c","h"," ",
    "2","0","2","5"," ","j","u","n","e">>

\* C3: an input that alternates Year, Month, Year, Month, ... yields exactly
\* one pair per adjacent (Year, Month) couple and never the cross product;
\* "2024 march 2025 june" yields (3,2024) and (6,2025).
C3_AlternatingYearMonth ==
  Returned =>
    /\ (text = T_2024_march_2025_june
          => result = << <<3, 2024>>, <<6, 2025>> >>)
    /\ (Alternating
          => Range(result) =
               {<<tokens[2 * k].val, tokens[2 * k - 1].val>> :
                  k \in 1..(Len(tokens) \div 2)})

\* C3 witness: two different years with two different months give two pairs
C3_Witness ==
  /\ Returned
  /\ Alternating
  /\ Len(tokens) = 4
  /\ tokens[1].val # tokens[3].val
  /\ tokens[2].val # tokens[4].val
  /\ Len(result) = 2

\* C4 as stated: for every month m and every year y in 1..9999 the text
\* "<full month name of m> <y>" parses to exactly the pair (m, y).
C4_RoundTripAllYears ==
  Returned =>
    \A m \in 1..12, y \in RoundTripYears :
      text = MonthYear(m, y) => result = << <<m, y>> >>

\* C4 amended: for every month m and every year y in 1000..9999 the text
\* "<full month name of m> <y>" parses to exactly the pair (m, y).
C4_RoundTripFourDigitYears ==
  Returned =>
    \A m \in 1..12, y \in {z \in RoundTripYears : z >= 1000} :
      text = MonthYear(m, y) => result = << <<m, y>> >>

\* C4 witness: "May 2024" has been parsed to (5, 2024)
C4_Witness ==
  /\ Returned
  /\ text = MonthYear(5, 2024)
  /\ result = << <<5, 2024>> >>

T_march_2024_and_march_2024_again ==
  <<"m","a","r","c","h"," ","2","0","2","4"," ","a","n","d"," ",
    "m","a","r","c","h"," ","2","0","2","4"," ","a","g","a","i","n">>

\* C5: the returned list is strictly increasing in (month, then year) order,
\* so no pair occurs twice.
C5_StrictlyIncreasing ==
  Returned =>
    \A k \in 1..(Len(result) - 1) :
      \/ result[k][1] < result[k + 1][1]
      \/ (result[k][1] = result[k + 1][1] /\ result[k][2] < result[k + 1][2])

\* C5 witness: a month and a year both mentioned twice give one pair
C5_Witness ==
  /\ Returned
  /\ text = T_march_2024_and_march_2024_again
  /\ result = << <<3, 2024>> >>

\* C6: "next month" yields the single pair (M+1, Y), or (1, Y+1) when M = 12,
\* for the current date with month M and year Y.
C6_NextMonth ==
  (Returned /\ text = W_next_month) =>
    result = << IF today.month < 12
                  THEN <<today.month + 1, today.year>>
                  ELSE <<1, today.year + 1>> >>

\* C6 witness: in December "next month" is January of the following year
C6_Witness ==
  /\ Returned
  /\ text = W_next_month
  /\ today.month = 12
  /\ result = << <<1, today.year + 1>> >>

\* C7: when the token list contains no Month token the result is empty.
C7_NoMonthNoPair ==
  (Returned /\ MonthTokens = {}) => result = <<>>

\* C7 witness: an input with Year tokens only has returned the empty list
C7_Witness ==
  /\ Returned
  /\ MonthTokens = {}
  /\ YearTokens # {}
  /\ result = <<>>

\* C8: parse_input never raises, and every iteration of the magnet scan
\* advances the index by one without passing the number of tokens.
C8_NeverRaises ==
  [][ /\ pc' # "raised"
      /\ (pc = "magnet" /\ pc' = "magnet")
           => (i' = i + 1 /\ i' <= Len(tokens)) ]_vars

\* the cells of the grid that are not marked as adjacent-month cells
InMonthCells ==
  {rc \in (1..Len(grid)) \X (1..7) :
     rc[2] <= Len(grid[rc[1]]) /\ grid[rc[1]][rc[2]][1] # "("}

\* the length of month m of year y in the Gregorian calendar
DaysInMonth(y, m) ==
  IF m = 2
    THEN (IF y % 400 = 0 \/ (y % 4 = 0 /\ y % 100 # 0) THEN 29 ELSE 28)
    ELSE <<31, 0, 31, 30, 31, 30, 31, 31, 30, 31, 30, 31>>[m]

\* C9: get_grid returns 6 rows of 7 cells, and the number of cells not
\* marked as adjacent-month equals the number of days of the month in the
\* clamped year.
C9_GridShape ==
  gpc = "returned" =>
    /\ Len(grid) = 6
    /\ \A r \in 1..Len(grid) : Len(grid[r]) = 7
    /\ Cardinality(InMonthCells) =
         DaysInMonth(IF year < 1 THEN 1 ELSE IF year > 9999 THEN 9999 ELSE year,
                     month)

\* C9 witness: July 2023 starts on a Saturday and has 31 days
C9_Witness ==
  /\ gpc = "returned"
  /\ year = 2023
  /\ month = 7
  /\ grid[1][7] = <<" ", "1", " ">>
  /\ Cardinality(InMonthCells) = 31

\* C10: every returned pair (month, year) has 1 <= month <= 12 and
\* 1 <= year <= 9999.
C10_PairRange ==
  Returned =>
    \A k \in 1..Len(result) :
      /\ 1 <= result[k][1] /\ result[k][1] <= 12
      /\ 1 <= result[k][2] /\ result[k][2] <= 9999

\* C11: for a month in 1..12 get_grid never raises, whatever the year; a year
\* below 1 gives the grid of year 1 and a year above 9999 the grid of year
\* 9999.  January of year 1 starts on a Monday, so its first cell is the
\* 31st of the preceding December; December 9999 starts on a Wednesday.
C11_YearClamped ==
  /\ (month \in 1..12 => gpc # "raised")
  /\ gpc = "returned" =>
       /\ (year < 1 => grid = get_grid(1, month))
       /\ (year > 9999 => grid = get_grid(9999, month))
       /\ ((year <= 1 /\ month = 1) =>
             /\ grid[1][1] = <<"(", "3", "1", ")">>
             /\ grid[1][2] = <<" ", "1", " ">>)
       /\ ((year >= 9999 /\ month = 12) =>
             /\ grid[1][3] = <<"(", "3", "0", ")">>
             /\ grid[1][4] = <<" ", "1", " ">>
             /\ grid[5][6] = <<" ", "3", "1">>
             /\ grid[6][7] = <<"(", "8", ")">>)

\* C11 witness: January of the year 0 has returned the grid of January of
\* year 1, whose first row starts with the 31st of December
C11_Witness ==
  /\ gpc = "returned"
  /\ year = 0
  /\ month = 1
  /\ grid = get_grid(1, 1)
  /\ grid[1][1] = <<"(", "3", "1", ")">>

\* the 0-based indices of the tokens of the given types that are not used
UnusedIdx(toks, used, types) ==
  {k \in 0..(Len(toks) - 1) : Tok(toks, k).type \in types /\ k \notin used}

\* C12: during the magnet phase the used-index set only grows; a step that
\* binds at scan index i marks i, i+1 (and i+2 for Pattern C), none of which
\* was in the used set before; and the leftover lists of the bucket phase
\* hold exactly one entry per unused Month or Year token, so no used token
\* is in them.
C12_UsedOnce ==
  [][ /\ pc = "magnet" =>
           /\ used_indices \subseteq used_indices'
           /\ used_indices' # used_indices =>
                /\ pc' = "magnet"
                /\ i \notin used_indices
                /\ used_indices' \ used_indices \in
                     {{i, i + 1}, {i, i + 1, i + 2}}
                /\ Cardinality(final_pairs' \ final_pairs) <= 1
      /\ pc' = "done" =>
           /\ Len(rem_months') =
                Cardinality(UnusedIdx(tokens', used_indices',
                                      {"M_NAME", "M_NUM"}))
           /\ Len(rem_years') =
                Cardinality(UnusedIdx(tokens', used_indices', {"Y"}))
           /\ \A v \in Range(rem_months') :
                \E k \in UnusedIdx(tokens', used_indices', {"M_NAME", "M_NUM"}) :
                  Tok(tokens', k).val = v
           /\ \A v \in Range(rem_years') :
                \E k \in UnusedIdx(tokens', used_indices', {"Y"}) :
                  Tok(tokens', k).val = v ]_vars

\* C12 witness: "jan and 2024 jan": Pattern C has used the first three
\* tokens, and the leftover months hold the second "jan" only
C12_Witness ==
  /\ Returned
  /\ used_indices = {0, 1, 2}
  /\ Len(tokens) = 4
  /\ tokens[1] = tokens[4]
  /\ IsMonth(tokens[1])
  /\ Len(rem_months) = 1
  /\ rem_years = <<>>

\* parse_input has ended, by a return or by an exception
Ended == pc \in {"done", "raised"}

\* C13: whenever the token list holds a Month token, parse_input returns a
\* non-empty list, so that generate_calendar renders at least one calendar;
\* in particular for each of the 50 cases of the authors' test list.
C13_MonthGivesCalendar ==
  /\ (Ended /\ MonthTokens # {}) => (Returned /\ result # <<>>)
  /\ (Ended /\ text \in TestCases) => (Returned /\ result # <<>>)

\* the values of the unused tokens of the given types
UnusedVals(toks, used, types) ==
  {Tok(toks, k).val : k \in UnusedIdx(toks, used, types)}

\* C14: with M and Y the values of the Month and Year tokens the magnet phase
\* left unused, the bucket phase adds M x Y when both are non-empty, the
\* pairs (m, current year) for m in M when Y is empty, and nothing else; a
\* magnet step adds at most the pair of a Month and a Year token it marks
\* used; the returned list holds exactly these pairs.
C14_BucketPairs ==
  [][ /\ (pc = "magnet" /\ pc' = "done") =>
           LET M == UnusedVals(tokens, used_indices, {"M_NAME", "M_NUM"})
               Y == UnusedVals(tokens, used_indices, {"Y"})
               added == IF Y # {} THEN M \X Y
                        ELSE {<<m, clock.year>> : m \in M}
           IN  /\ final_pairs' = final_pairs \cup added
               /\ Range(result') = final_pairs'
               /\ Len(result') = Cardinality(final_pairs')
      /\ (pc = "magnet" /\ pc' = "magnet") =>
           LET new == used_indices' \ used_indices
           IN  final_pairs' \ final_pairs \subseteq
                 {<<Tok(tokens, a).val, Tok(tokens, b).val>> :
                    a \in {k \in new : IsMonth(Tok(tokens, k))},
                    b \in {k \in new : Tok(tokens, k).type = "Y"}}
      /\ pc = "resolved" => final_pairs' = {} ]_vars

\* C14 witness: "2024 2025 jan 3": the magnet phase binds nothing and the
\* bucket phase adds the four pairs of the cross product
C14_Witness ==
  /\ Returned
  /\ used_indices = {}
  /\ Len(rem_months) = 2
  /\ Len(rem_years) = 2
  /\ final_pairs = {<<1, 2024>>, <<1, 2025>>, <<3, 2024>>, <<3, 2025>>}
  /\ Len(result) = 4

\* the tokenization has just ended: token k was made from word k
Tokenized == pc = "magnet" /\ i = 0

\* C18: an all-digit word becomes a NumericMonth token only if it has 1 or 2
\* digits and its value is in 1..12; an all-digit word of 3 digits or of 5
\* or more digits, such as "007" or "00012", becomes Noise.
C18_NumericMonthDigits ==
  Tokenized =>
    LET words == Words(clean_text)
    IN  \A k \in 1..Len(tokens) :
          /\ tokens[k].type = "M_NUM" =>
               /\ Len(words[k]) \in {1, 2}
               /\ 1 <= tokens[k].val /\ tokens[k].val <= 12
          /\ (IsDigit(words[k]) /\ (Len(words[k]) = 3 \/ Len(words[k]) >= 5))
               => tokens[k].type = "Noise"

T_february == <<"f","e","b","r","u","a","r","y">>

\* C19: each spelled-out year phrase is replaced by its own year:
\* "february twenty twenty" yields (2, 2020), "february twenty twenty four"
\* yields (2, 2024) and "february twenty thirteen" yields (2, 2013).
C19_SpelledYears ==
  Returned =>
    /\ (text = T_february \o Sp \o W_twenty_twenty_four
          => result = << <<2, 2024>> >>)
    /\ (text = T_february \o Sp \o W_twenty_thirteen
          => result = << <<2, 2013>> >>)
    /\ (text = T_february \o Sp \o W_twenty_twenty
          => result = << <<2, 2020>> >>)

CommandLengths(words) ==
  {n \in 1..Len(words) :
     n <= 3 /\ InToolMapping(Concat(LowerWords(SubSeq(words, 1, n))))}

Longest(S) == CHOOSE n \in S : \A m \in S : m <= n

\* C16: each command of the docstring resolves to a tool name that is not
\* None and to the words after the command phrase; in general the longest
\* of the first 3, 2 or 1 words that is a key of TOOL_MAPPING, lower-cased
\* and concatenated, selects the tool, and the remaining words are returned
\* in their original casing.
C16_CommandPhrases ==
  tpc = "returned" =>
    /\ (query = Q_Geo_Code_chennai =>
          /\ tool_name = Some("mcp_geocode")
          /\ tool_args = Some(<<"c","h","e","n","n","a","i">>))
    /\ (query = Q_QR_Code_hello =>
          /\ tool_name # None
          /\ tool_args = Some(<<"h","e","l","l","o">>))
    /\ (query = Q_RouteANDdistance =>
          /\ tool_name # None
          /\ tool_args =
               Some(<<"c","h","e","n","n","a","i"," ","t","o"," ",
                      "t","r","i","c","h","y">>))
    /\ LET words == Split(query)
           lens == CommandLengths(words)
       IN  IF lens = {}
             THEN tool_name = None /\ tool_args = None
             ELSE /\ tool_name =
                       Some(ToolOf(Concat(LowerWords(
                              SubSeq(words, 1, Longest(lens))))))
                  /\ tool_args =
                       Some(JoinWords(SubSeq(words, Longest(lens) + 1,
                                             Len(words))))

\* an entry for the key is in the cache and has not expired
Unexpired(k) == k \in DOMAIN cache /\ now < expiry[k]

\* C17: get_rates follows Cache -> Primary -> Fallback: a call that finds an
\* unexpired cache entry for its base returns it without any request; the
\* fallback request is sent only after the primary request failed or its
\* document lacked the base; a table obtained from either API is in the
\* cache when it is returned; a call returns None only after both requests,
\* and only a call that returns a table changes the cache.
C17_CachePrimaryFallback ==
  [][ /\ (rpc = "idle" /\ rpc' # "idle" /\ Unexpired(RatesKey(base'))) =>
           /\ rpc' = "returned"
           /\ requests' = <<>>
           /\ rates' = Some(cache[RatesKey(base')])
      /\ (requests' # requests /\ "fallback" \in Range(requests')) =>
           /\ rpc = "got_primary"
           /\ requests = <<"primary">>
           /\ requests' = <<"primary", "fallback">>
           /\ (response = None \/ base \notin DOMAIN response[1])
      /\ (rpc \in {"got_primary", "got_fallback"} /\ rpc' = "returned"
            /\ rates' # None) =>
           /\ RatesKey(base) \in DOMAIN cache'
           /\ cache'[RatesKey(base)] = rates'[1]
           /\ expiry'[RatesKey(base)] = now + CACHE_TTL_SECONDS
      /\ (rpc # "returned" /\ rpc' = "returned" /\ rates' = None) =>
           /\ rpc = "got_fallback"
           /\ requests = <<"primary", "fallback">>
      /\ (cache' # cache \/ expiry' # expiry) =>
           (rpc' = "returned" /\ rates' # None) ]_vars

\* C15: under every interleaving of the steps of two generate_calendar calls
\* on the one engine, a call that has returned has returned what
\* generate_calendar gives for its query and the dates it read from the
\* clock; the engine attribute is never written.
C15_NoInterference ==
  /\ cal = 6
  /\ \A p \in Calls :
       calls[p].pc = "returned" =>
         calls[p].out = generate_calendar(calls[p].query,
                                          frames[Frame(p)].today,
                                          frames[Frame(p)].curr_year)

\* C15 witness: the first call has returned its two calendars, for March
\* 2024 and June 2025, while the second call, for "jan feb mar 2024", has
\* bound its last month in the magnet scan and is not yet in the bucket
\* phase
C15_Witness ==
  /\ calls[1].pc = "returned"
  /\ calls[1].out.kind = "cals"
  /\ calls[1].out.count = 2
  /\ calls[1].out.blocks[2].title = MonthYear(6, 2025)
  /\ calls[2].pc = "magnet"
  /\ frames[2].i = 3
  /\ frames[2].used_indices = {2, 3}
  /\ frames[1].tokens # frames[2].tokens

\* the scan is at a Month that follows a Month and is followed by a Year
MonthAfterMonth(toks, k) ==
  /\ k > 0
  /\ k + 1 < Len(toks)
  /\ IsMonth(Tok(toks, k - 1))
  /\ IsMonth(Tok(toks, k))
  /\ Tok(toks, k + 1).type = "Y"

\* the step at index i binds tokens i and i+1 as (month, year)
BindsMonthYear ==
  /\ used_indices' = used_indices \cup {i, i + 1}
  /\ final_pairs' =
       final_pairs \cup {<<Tok(tokens, i).val, Tok(tokens, i + 1).val>>}

\* the step at index i binds nothing
BindsNothing == used_indices' = used_indices /\ final_pairs' = final_pairs

\* the numeric Months that follow a Month and are followed by a Year are
\* unused and among the leftover months when parse_input returns
NumericLeftover ==
  pc' = "done" =>
    \A k \in 0..(Len(tokens') - 1) :
      (MonthAfterMonth(tokens', k) /\ Tok(tokens', k).type = "M_NUM") =>
        /\ k \notin used_indices'
        /\ Tok(tokens', k).val \in Range(rem_months')

C22_PatternB ==
  [][ ( /\ pc = "magnet"
        /\ i + 1 < Len(tokens)
        /\ Tok(tokens, i).type = "Y"
        /\ IsMonth(Tok(tokens, i + 1)) ) =>
      IF i \notin used_indices /\ ~(i > 0 /\ Tok(tokens, i - 1).type = "Y")
        THEN /\ used_indices' = used_indices \cup {i, i + 1}
             /\ i + 1 \notin used_indices
             /\ final_pairs' =
                  final_pairs \cup
                    {<<Tok(tokens, i + 1).val, Tok(tokens, i).val>>}
        ELSE BindsNothing ]_vars

\* C22 witness: "2025 2024 jan": the Year before the Month follows a Year,
\* Pattern B bound nothing and the bucket phase paired the month with both
\* years
C22_Witness ==
  /\ Returned
  /\ Len(tokens) = 3
  /\ tokens[1].type = "Y"
  /\ tokens[2].type = "Y"
  /\ tokens[1].val > tokens[2].val
  /\ IsMonth(tokens[3])
  /\ used_indices = {}
  /\ Len(result) = 2

\* the scan is at a Month followed by a Connector and a Year
MonthConnectorYear(toks, k) ==
  /\ k + 2 < Len(toks)
  /\ IsMonth(Tok(toks, k))
  /\ Tok(toks, k + 1).type = "C"
  /\ Tok(toks, k + 2).type = "Y"

\* token k+3 is absent or is a Month
NextAbsentOrMonth(toks, k) ==
  k + 3 >= Len(toks) \/ IsMonth(Tok(toks, k + 3))

\* the step at index i binds tokens i and i+2 and marks i, i+1 and i+2
BindsMonthConnectorYear ==
  /\ used_indices \cap {i, i + 1, i + 2} = {}
  /\ used_indices' = used_indices \cup {i, i + 1, i + 2}
  /\ final_pairs' =
       final_pairs \cup {<<Tok(tokens, i).val, Tok(tokens, i + 2).val>>}

\* C23 as stated: at a Month at i, a Connector at i+1 and a Year at i+2 the
\* step binds (month, year) and marks i, i+1 and i+2 exactly when token i+3
\* is absent or is a Month.
C23_PatternC ==
  [][ (pc = "magnet" /\ MonthConnectorYear(tokens, i)) =>
      IF NextAbsentOrMonth(tokens, i)
        THEN BindsMonthConnectorYear
        ELSE BindsNothing ]_vars

\* C23 amended: the same, for an index i that is unused when it is scanned;
\* at a used index nothing is bound.
C23_PatternCUnused ==
  [][ (pc = "magnet" /\ MonthConnectorYear(tokens, i)) =>
      IF i \notin used_indices /\ NextAbsentOrMonth(tokens, i)
        THEN BindsMonthConnectorYear
        ELSE BindsNothing ]_vars

\* C23 witness: "jan and 2024": the three tokens are used and the pair is
\* the result
C23_Witness ==
  /\ Returned
  /\ Len(tokens) = 3
  /\ IsMonth(tokens[1])
  /\ tokens[2].type = "C"
  /\ tokens[3].type = "Y"
  /\ used_indices = {0, 1, 2}
  /\ result = << <<tokens[1].val, tokens[3].val>> >>

\* the pair one month before month M of year Y
OneMonthBack(M, Y) == IF M = 1 THEN <<12, Y - 1>> ELSE <<M - 1, Y>>

\* the pair two months after month M of year Y
TwoMonthsOn(M, Y) == IF M >= 11 THEN <<M - 10, Y + 1>> ELSE <<M + 2, Y>>

\* C24: with current month M and year Y, "last month" and "previous month"
\* resolve to (M-1, Y), or (12, Y-1) when M = 1; "month after next" resolves
\* to (M+2, Y), or (M-10, Y+1) when M >= 11; the month is always in 1..12.
C24_RelativeMonthWrap ==
  Returned =>
    /\ text \in {W_last_month, W_previous_month}
         => result = << OneMonthBack(today.month, today.year) >>
    /\ text = W_month_after_next
         => result = << TwoMonthsOn(today.month, today.year) >>
    /\ text \in {W_last_month, W_previous_month, W_month_after_next}
         => \A k \in 1..Len(result) : result[k][1] \in 1..12

\* C24 witness: "previous month" asked in January has returned December of
\* the year before
C24_Witness ==
  /\ Returned
  /\ text = W_previous_month
  /\ today.month = 1
  /\ result = << <<12, today.year - 1>> >>

\* "month after next" asked in November has returned January of the next year
C24_WitnessAfterNext ==
  /\ Returned
  /\ text = W_month_after_next
  /\ today.month = 11
  /\ result = << <<1, today.year + 1>> >>

\* Zeller's congruence for the Gregorian calendar, turned so that Sunday is 0
SundayWeekday(y, m, d) ==
  LET mm == IF m < 3 THEN m + 12 ELSE m
      yy == IF m < 3 THEN y - 1 ELSE y
      K == yy % 100
      J == yy \div 100
      h == (d + ((13 * (mm + 1)) \div 5) + K + (K \div 4) + (J \div 4) + 5 * J) % 7
  IN  (h + 6) % 7

\* cell c (from 0) of the returned grid read row by row
FlatCell(c) == grid[(c \div 7) + 1][(c % 7) + 1]

\* the day number a cell shows
CellDay(cell) == IntOf(SelectSeq(cell, IsDecDigit))

\* the cell belongs to an adjacent month
CellAdjacent(cell) == cell[1] = "(" /\ cell[Len(cell)] = ")"

\* C25: with k the weekday of the 1st counted from Sunday = 0, the first k
\* cells of the grid are the last k days of the previous month in ascending
\* order, cells k .. k+N-1 are the days 1..N of the month, the remaining
\* 42-k-N cells are numbered 1, 2, ...; so every in-month day stands in the
\* column of its weekday, Sunday being column 0.
C25_GridLayout ==
  gpc = "returned" =>
    LET y == IF year < 1 THEN 1 ELSE IF year > 9999 THEN 9999 ELSE year
        k == SundayWeekday(y, month, 1)
        N == DaysInMonth(y, month)
        P == IF month = 1 THEN 31 ELSE DaysInMonth(y, month - 1)
    IN  /\ Len(grid) = 6
        /\ \A r \in 1..Len(grid) : Len(grid[r]) = 7
        /\ \A c \in 0..41 :
             /\ c < k =>
                  /\ CellAdjacent(FlatCell(c))
                  /\ CellDay(FlatCell(c)) = P - k + 1 + c
             /\ (k <= c /\ c < k + N) =>
                  /\ ~CellAdjacent(FlatCell(c))
                  /\ CellDay(FlatCell(c)) = c - k + 1
                  /\ c % 7 = SundayWeekday(y, month, c - k + 1)
             /\ k + N <= c =>
                  /\ CellAdjacent(FlatCell(c))
                  /\ CellDay(FlatCell(c)) = c - k - N + 1

\* C25 witness: March 2024 starts on a Friday: five days of February, the
\* 29th last, then the 1st in column 5, and April starts in row 6
C25_Witness ==
  /\ gpc = "returned"
  /\ year = 2024
  /\ month = 3
  /\ FlatCell(0) = <<"(", "2", "5", ")">>
  /\ FlatCell(4) = <<"(", "2", "9", ")">>
  /\ FlatCell(5) = <<" ", "1", " ">>
  /\ FlatCell(35) = <<" ", "3", "1">>
  /\ FlatCell(36) = <<"(", "1", ")">>
  /\ FlatCell(41) = <<"(", "6", ")">>

\* the (month, year) pairs are in ascending tuple order, without repetition
Ascending(ps) ==
  \A k, l \in 1..Len(ps) :
    k < l => \/ ps[k][1] < ps[l][1]
             \/ ps[k][1] = ps[l][1] /\ ps[k][2] < ps[l][2]

HeaderYear(pair) == pair[2]

\* lines 27-28, called at line 281: the year get_grid lays the block out for
GridYear(pair) == ClampYear(pair[2])

\* C27: for every pair parse_input returns, the year of the block header is
\* the year get_grid lays the block out for: the clamp changes no year that
\* the parser produces.
C27_HeaderYearIsGridYear ==
  Returned =>
    \A k \in 1..Len(result) : HeaderYear(result[k]) = GridYear(result[k])

\* what parse_input returns for the text when both clock reads give date d
PairsOn(d) == parse_input(text, d, d.year).pairs

\* C28: the date read at line 59 and the year read at line 252 come from one
\* calendar date: even if the clock passes a year boundary during the call,
\* the returned pairs are those of a single current date, the one of the
\* first read or the one of the last.
C28_OneCurrentDate ==
  Returned => \E d \in {today, clock} : result = PairsOn(d)

\* the values of the Month tokens and of the Year tokens
MonthValues == {tokens[k].val : k \in MonthTokens}
YearValues == {tokens[k].val : k \in YearTokens}

\* C29: the month of every returned pair is the value of a Month token and
\* its year the value of a Year token or the current year; the value of
\* every Month token is the month of at least one returned pair.  (A Year
\* token may stay without a pair: the witness.)
C29_Provenance ==
  Returned =>
    /\ \A k \in 1..Len(result) :
         /\ result[k][1] \in MonthValues
         /\ result[k][2] \in YearValues \cup {clock.year}
    /\ \A m \in MonthValues : \E k \in 1..Len(result) : result[k][1] = m

\* C29 witness: pairs have been returned for the Month tokens of a
\* three-token input, and one of its Year tokens has contributed no pair
C29_Witness ==
  /\ Returned
  /\ Len(tokens) = 3
  /\ result # <<>>
  /\ \E y \in YearValues : \A k \in 1..Len(result) : result[k][2] # y
  /\ MonthValues = {result[k][1] : k \in 1..Len(result)}

\* a pair with the current year has been returned although the input has
\* no Year token
C29_WitnessCurrentYear ==
  /\ Returned
  /\ YearValues = {}
  /\ Cardinality(MonthValues) = 2
  /\ \A k \in 1..Len(result) : result[k][2] = clock.year
  /\ Len(result) = 2

\* the lower-cased words of the query
QueryLWords == LowerWords(Split(Strip(query)))

\* the whole query is a command phrase: nothing is left for the arguments
BareCommand == QueryLWords # <<>> /\ InToolMapping(Concat(QueryLWords))

\* no leading words of the query form a command phrase
NoCommand ==
  \A n \in 1..Len(QueryLWords) :
    ~InToolMapping(Concat(SubSeq(QueryLWords, 1, n)))

C30_WitnessBareCommand ==
  /\ tpc = "rendered"
  /\ method = "POST"
  /\ BareCommand
  /\ tool_name = Some("check_rain_status")
  /\ tool_args = Some(<<>>)
  /\ invoked = <<>>
  /\ index_result[1].kind = "unknown"

====
